---- MODULE Spec2Model ----
(***************************************************************************)
(* A model of the crawl-and-retrieve pipeline of ai-chatbot-backend:       *)
(*   - app/services/crawler.py    crawl, _split_large_text, domain scoping *)
(*   - app/services/retriever.py  AIRetrieverIndex (chunker, store,        *)
(*                                delegated-scoring retrieval)             *)
(*   - app/routers/ask.py         ask_stream (crawl, index, retrieve)      *)
(*                                                                         *)
(* Strings are modelled exactly, in run-length-encoded form: a text is a   *)
(* sequence of runs [c |-> character, n |-> repetitions], kept normalised  *)
(* (no empty run, no two adjacent runs of the same character), so that     *)
(* two texts are equal as TLA+ values iff they are equal as strings.  This *)
(* lets the model use the program's own sizes (2500, 400, 500, 20000).     *)
(***************************************************************************)
EXTENDS Integers, Sequences, FiniteSets, TLC

\* ------------------------------------------------------------------------
\* Strings
\* ------------------------------------------------------------------------

NL == "\n"
SP == " "

Run(c, n) == [c |-> c, n |-> n]

\* str.strip() with no argument strips whitespace; the alphabet of the model
\* has two whitespace characters.
IsWs(c) == c \in {SP, NL}

RECURSIVE StrLen(_)
StrLen(t) == IF t = <<>> THEN 0 ELSE Head(t).n + StrLen(Tail(t))

RECURSIVE Norm(_)
Norm(t) ==
  IF t = <<>> THEN <<>>
  ELSE IF Head(t).n = 0 THEN Norm(Tail(t))
  ELSE LET r == Norm(Tail(t)) IN
       IF r # <<>> /\ Head(r).c = Head(t).c
       THEN <<Run(Head(t).c, Head(t).n + Head(r).n)>> \o Tail(r)
       ELSE <<Head(t)>> \o r

\* a + b
Cat(a, b) == Norm(a \o b)

Front(t) == SubSeq(t, 1, Len(t) - 1)

RECURSIVE LStrip(_)
LStrip(t) ==
  IF t = <<>> THEN <<>>
  ELSE IF IsWs(Head(t).c) THEN LStrip(Tail(t)) ELSE t

RECURSIVE RStrip(_)
RStrip(t) ==
  IF t = <<>> THEN <<>>
  ELSE IF IsWs(t[Len(t)].c) THEN RStrip(Front(t)) ELSE t

\* s.strip()
Strip(t) == RStrip(LStrip(t))

\* s[-k:] for 0 < k
RECURSIVE Suffix(_, _)
Suffix(t, k) ==
  IF k <= 0 \/ t = <<>> THEN <<>>
  ELSE LET l == t[Len(t)] IN
       IF l.n >= k THEN <<Run(l.c, k)>>
       ELSE Suffix(Front(t), k - l.n) \o <<l>>

\* s[:k]
RECURSIVE Prefix(_, _)
Prefix(t, k) ==
  IF k <= 0 \/ t = <<>> THEN <<>>
  ELSE IF Head(t).n >= k THEN <<Run(Head(t).c, k)>>
  ELSE <<Head(t)>> \o Prefix(Tail(t), k - Head(t).n)

\* s.startswith(lit)
StartsWith(t, lit) == Prefix(t, StrLen(lit)) = lit

\* sep.join(parts)
RECURSIVE Join(_, _)
Join(parts, sep) ==
  IF parts = <<>> THEN <<>>
  ELSE IF Len(parts) = 1 THEN parts[1]
  ELSE Cat(Cat(parts[1], sep), Join(Tail(parts), sep))

\* s.split("\n"): the lines of s; cur is the line being read.
RECURSIVE SplitLinesFrom(_, _)
SplitLinesFrom(t, cur) ==
  IF t = <<>> THEN <<cur>>
  ELSE IF Head(t).c = NL
       THEN <<cur>> \o [i \in 1..(Head(t).n - 1) |-> <<>>]
                    \o SplitLinesFrom(Tail(t), <<>>)
       ELSE SplitLinesFrom(Tail(t), cur \o <<Head(t)>>)

SplitLines(t) == SplitLinesFrom(t, <<>>)

\* s.split("\n\n"): Python scans left to right, so a run of n newlines holds
\* n \div 2 separators and leaves n % 2 newlines at the start of the next part.
RECURSIVE SplitBlankFrom(_, _)
SplitBlankFrom(t, cur) ==
  IF t = <<>> THEN <<cur>>
  ELSE IF Head(t).c = NL /\ Head(t).n >= 2
       THEN <<cur>> \o [i \in 1..((Head(t).n \div 2) - 1) |-> <<>>]
                    \o SplitBlankFrom(Tail(t), Norm(<<Run(NL, Head(t).n % 2)>>))
       ELSE SplitBlankFrom(Tail(t), cur \o <<Head(t)>>)

SplitBlank(t) == SplitBlankFrom(t, <<>>)

\* Literals
X(n)  == <<Run("x", n)>>
Sps(n) == <<Run(SP, n)>>
NLs(n) == <<Run(NL, n)>>
Lit(chars) == Norm([i \in 1..Len(chars) |-> Run(chars[i], 1)])
PAGE_OPEN  == Lit(<<"[", "P", "A", "G", "E", ":">>)
PAGE_CLOSE == Lit(<<"[", "/", "P", "A", "G", "E", ":">>)

\* ------------------------------------------------------------------------
\* AIRetrieverIndex: configuration (retriever.py, global_index)
\* ------------------------------------------------------------------------

max_chunk_chars == 2500
overlap_chars == 400
max_context_tokens == 40000
\* the minimum size a chunk buffer must hold before it may be closed
MIN_CHUNK_CHARS == 500

\* ------------------------------------------------------------------------
\* AIRetrieverIndex._split_text_into_chunks
\* ------------------------------------------------------------------------

\* line.strip().startswith('[PAGE:') or line.strip().startswith('[/PAGE:')
IsPageMarker(line) ==
  \/ StartsWith(Strip(line), PAGE_OPEN)
  \/ StartsWith(Strip(line), PAGE_CLOSE)

\* One iteration of "for line in text.split('\n')"; st = [paras, cur].
ParaStep(st, line) ==
  IF IsPageMarker(line)
  THEN [paras |-> (IF Strip(st.cur) # <<>>
                   THEN Append(st.paras, Strip(st.cur)) ELSE st.paras)
                  \o <<Strip(line)>>,
        cur |-> <<>>]
  ELSE IF Strip(line) = <<>>
  THEN IF Strip(st.cur) # <<>>
       THEN [paras |-> Append(st.paras, Strip(st.cur)), cur |-> <<>>]
       ELSE st
  ELSE [paras |-> st.paras, cur |-> Cat(Cat(st.cur, line), NLs(1))]

RECURSIVE ParaLoop(_, _)
ParaLoop(lines, st) ==
  IF lines = <<>> THEN st ELSE ParaLoop(Tail(lines), ParaStep(st, Head(lines)))

\* The paragraphs of a text: lines 48-67.
Paragraphs(text) ==
  LET st == ParaLoop(SplitLines(text), [paras |-> <<>>, cur |-> <<>>])
  IN IF Strip(st.cur) # <<>> THEN Append(st.paras, Strip(st.cur)) ELSE st.paras

\* A chunk dictionary.  chunk_id is f"{doc_id}#chunk-{chunk_index}": the
\* concatenation is kept as its three parts.
MkChunk(doc_id, chunk_index, chunk_text) ==
  [chunk_id |-> <<doc_id, "#chunk-", chunk_index>>,
   doc_id |-> doc_id,
   chunk_index |-> chunk_index,
   text |-> Strip(chunk_text),
   char_length |-> StrLen(chunk_text)]

\* ShouldClose forgetting the length of the paragraph about to be added.
ShouldClose_NoParagraph(st, paragraph) ==
  /\ st.len > max_chunk_chars
  /\ st.len >= MIN_CHUNK_CHARS
  /\ st.cur # <<>>

\* The condition under which the chunk buffer is closed: lines 78-79.
ShouldClose(st, paragraph) ==
  /\ st.len + StrLen(paragraph) > max_chunk_chars
  /\ st.len >= MIN_CHUNK_CHARS
  /\ st.cur # <<>>

\* The overlap carried into the next chunk: lines 96-100.
OverlapText(combined_text) ==
  IF StrLen(combined_text) > overlap_chars
  THEN Norm(Suffix(combined_text, overlap_chars))
  ELSE combined_text

\* One iteration of "for paragraph in paragraphs"; st = [chunks, cur, len, idx]:
\* chunks, current_chunk_paragraphs, current_length, chunk_index.
ChunkStep(st, paragraph, doc_id) ==
  IF ShouldClose(st, paragraph)
  THEN LET chunk_text == Join(st.cur, NLs(1))
           emit == Strip(chunk_text) # <<>>
           chunks1 == IF emit
                      THEN Append(st.chunks, MkChunk(doc_id, st.idx, chunk_text))
                      ELSE st.chunks
           idx1 == IF emit THEN st.idx + 1 ELSE st.idx
       IN IF overlap_chars > 0 /\ st.cur # <<>>
          THEN LET overlap_text == OverlapText(Join(st.cur, NLs(1))) IN
               [chunks |-> chunks1, idx |-> idx1,
                cur |-> <<overlap_text, paragraph>>,
                len |-> StrLen(overlap_text) + StrLen(paragraph)]
          ELSE [chunks |-> chunks1, idx |-> idx1,
                cur |-> <<paragraph>>,
                len |-> StrLen(paragraph)]
  ELSE [chunks |-> st.chunks, idx |-> st.idx,
        cur |-> Append(st.cur, paragraph),
        len |-> st.len + StrLen(paragraph) + 1]

RECURSIVE ChunkLoop(_, _, _)
ChunkLoop(paragraphs, st, doc_id) ==
  IF paragraphs = <<>> THEN st
  ELSE ChunkLoop(Tail(paragraphs), ChunkStep(st, Head(paragraphs), doc_id), doc_id)

\* The buffer left when the loop ends is dropped.
FinalChunk_Dropped(st, doc_id) == st.chunks

\* "Handle final chunk": lines 110-120.
FinalChunk(st, doc_id) ==
  IF st.cur # <<>> /\ Strip(Join(st.cur, NLs(1))) # <<>>
  THEN Append(st.chunks, MkChunk(doc_id, st.idx, Join(st.cur, NLs(1))))
  ELSE st.chunks

SplitTextIntoChunks(text, doc_id) ==
  IF text = <<>> \/ Strip(text) = <<>> THEN <<>>
  ELSE FinalChunk(ChunkLoop(Paragraphs(text),
                            [chunks |-> <<>>, cur |-> <<>>, len |-> 0, idx |-> 0],
                            doc_id),
                  doc_id)

\* ------------------------------------------------------------------------
\* crawler.py: _split_large_text
\* ------------------------------------------------------------------------

\* One iteration of "for para in paragraphs"; st = [chunks, cur, len]:
\* chunks, current_chunk, current_length.
SplitLargeStep(st, para, max_chars) ==
  LET para_length == StrLen(para) + 2 IN
  IF st.len + para_length > max_chars /\ st.cur # <<>>
  THEN LET chunk_text == Strip(Join(st.cur, NLs(2)))
           chunks1 == IF chunk_text # <<>> THEN Append(st.chunks, chunk_text)
                      ELSE st.chunks
       IN IF Len(st.cur) > 2
          THEN LET overlap == SubSeq(st.cur, Len(st.cur) - 1, Len(st.cur)) IN
               [chunks |-> chunks1,
                cur |-> Append(overlap, para),
                len |-> (StrLen(overlap[1]) + 2) + (StrLen(overlap[2]) + 2)
                        + StrLen(para)]
          ELSE [chunks |-> chunks1, cur |-> <<para>>, len |-> para_length]
  ELSE [chunks |-> st.chunks, cur |-> Append(st.cur, para),
        len |-> st.len + para_length]

RECURSIVE SplitLargeLoop(_, _, _)
SplitLargeLoop(paragraphs, st, max_chars) ==
  IF paragraphs = <<>> THEN st
  ELSE SplitLargeLoop(Tail(paragraphs),
                      SplitLargeStep(st, Head(paragraphs), max_chars), max_chars)

SplitLargeText(text, max_chars) ==
  IF StrLen(text) <= max_chars THEN <<text>>
  ELSE LET st == SplitLargeLoop(SplitBlank(text),
                                [chunks |-> <<>>, cur |-> <<>>, len |-> 0],
                                max_chars)
           chunk_text == Strip(Join(st.cur, NLs(2)))
       IN IF st.cur # <<>> /\ chunk_text # <<>>
          THEN Append(st.chunks, chunk_text) ELSE st.chunks

\* ------------------------------------------------------------------------
\* State
\* ------------------------------------------------------------------------

VARIABLES
  \* one call of _split_text_into_chunks
  chText,         \* the text argument
  chOut,          \* the list returned
  chPc            \* "call" before the call, "done" after it

chunkVars == <<chText, chOut, chPc>>

VARIABLES
  \* global_index, the process-wide AIRetrieverIndex
  documents,      \* doc_id -> content
  document_keys,  \* the keys of documents in insertion order (dict order)
  chunks,         \* the list of chunk dictionaries
  doc_to_chunks,  \* doc_id -> list of positions in chunks (0-based)
  \* the locals of the call of retrieve_relevant_context in progress
  reqPc,          \* "index": the request may still add documents;
                  \* "answered": retrieve_relevant_context has returned
  query,          \* its query argument
  relevant_chunks,\* the ranked candidates, a list of <<position, score>>
  selected_chunks \* the list it returned

indexVars == <<documents, document_keys, chunks, doc_to_chunks>>
requestVars == <<reqPc, query, relevant_chunks, selected_chunks>>

VARIABLES
  \* settings, read from the environment when the process starts
  MAX_PAGES,
  MAX_DEPTH,
  \* one call of crawl(root_url), made by ask_stream
  root_url,
  queue,          \* the frontier, a list of <<url, depth>>
  visited,        \* the set of URLs popped and not skipped
  pages,          \* CrawlResult.pages: doc_id -> document
  crawlPc,        \* "loop" in the while loop, "done" once crawl returned,
                  \* "raised" if an exception left crawl
  fetchLog,       \* every _fetch issued: [url, depth, stored, failed]
  lastLinks,      \* the set of hrefs the link loop of the last iteration handled
  askPc,          \* ask_stream: "crawl" while it awaits crawl, "retrieve"
                  \* once it has gone on to retrieval
  askIndexed      \* the doc_ids ask_stream handed to add_document

VARIABLES
  \* one run of async_json_stream, the generator ask_stream returns
  streamPc,         \* "generate" in the async for loop, "images" and "files"
                    \* in the two marker loops, "done" at the end of the
                    \* generator, "raised" if an exception left it
  full_answer,      \* the fragments generated so far, in order
  events,           \* the JSON objects yielded so far, in order
  image_markers,    \* re.findall(r"\[\[IMAGE:(.*?)\]\]", full_answer)
  file_markers,     \* re.findall(r"\[\[FILE:(.*?)\]\]", full_answer)
  markerIdx,        \* the position of the marker loop under way, from 1
  processed_assets, \* the set of (marker, type, source, size) tuples
  processed_markers,\* the set of markers a loop has taken up
  resolved          \* the markers global_index.get_document_assets was
                    \* called for by the loops, in call order

streamVars == <<streamPc, full_answer, events, image_markers, file_markers,
                markerIdx, processed_assets, processed_markers, resolved>>

VARIABLES
  \* the ask_stream coroutines the event loop is running, by handler
  hPc,              \* "idle": no request; "crawl": suspended in await crawl;
                    \* "read": suspended in await file.read(); "stream": its
                    \* generator is suspended between two events
  hFile,            \* whether the request of the handler carries a file
  hSeen,            \* what the last read of the handler saw of the store
  hRequests         \* the number of requests received so far

handlerVars == <<hPc, hFile, hSeen, hRequests>>

VARIABLES
  \* one call of score_chunks_with_ai, made by retrieve_relevant_context
  scorePc,          \* "idle" before the call, "scoring" in its loop,
                    \* "ranked" once retrieve_relevant_context has returned
  scored,           \* the list of <<position, score>> built by the loop,
                    \* sorted once the loop has ended
  response          \* what the last call of chat_stream by _get_ai_score did

scoreVars == <<scorePc, scored, response>>

VARIABLES
  \* a ConcurrencyController and the tasks that use it
  max_concurrent,   \* its limit
  semValue,         \* the value of its asyncio.Semaphore
  waiters,          \* the tasks of the futures in its _waiters, oldest first
  woken,            \* the waiters whose future was given its result
  active_requests,
  queued_requests,
  total_requests,
  taskPc            \* by task: "idle"; "waiting" in await semaphore.acquire();
                    \* "holding" after acquire returned; "inside" the block
                    \* of "async with controller"; "cancelled" once
                    \* CancelledError left its acquire()

ctrlVars == <<max_concurrent, semValue, waiters, woken, active_requests,
              queued_requests, total_requests, taskPc>>

VARIABLES
  \* one crawl, with the HTTP requests it makes
  downloaded_binary_sources,  \* the sources downloaded so far in the crawl
  gets                        \* every requests.get of the crawl, in order

downloadVars == <<downloaded_binary_sources, gets>>

\* The variables of the specifications further down.
otherVars == <<handlerVars, scoreVars, ctrlVars, downloadVars>>

settingsVars == <<MAX_PAGES, MAX_DEPTH>>
crawlVars == <<root_url, queue, visited, pages, crawlPc, fetchLog, lastLinks>>
askVars == <<askPc, askIndexed>>

vars == <<chunkVars, indexVars, requestVars, settingsVars, crawlVars, askVars,
          streamVars, otherVars>>


\* ------------------------------------------------------------------------
\* AIRetrieverIndex: the store
\* ------------------------------------------------------------------------

\* self.doc_to_chunks is a defaultdict(list): a missing key reads as [].
ChunksOf(d2c, doc_id) == IF doc_id \in DOMAIN d2c THEN d2c[doc_id] ELSE <<>>

\* d[k] = v on a dictionary
DictSet(d, k, v) == [x \in DOMAIN d \cup {k} |-> IF x = k THEN v ELSE d[x]]

\* content.get("text", "") or ""
TextOf(content) == content.text

\* The positions counted from 0 at every add_document.
NewPositions_FromZero(start_idx, n) == [i \in 1..n |-> i - 1]

\* The positions given to the chunks of one add_document: start_idx + i.
NewPositions(start_idx, n) == [i \in 1..n |-> start_idx + i - 1]

\* add_document stopped after line 31: the document is written, its chunks
\* are not appended.
AddDocumentTo_DocOnly(st, doc_id, content) ==
  [documents |-> DictSet(st.documents, doc_id, content),
   chunks |-> st.chunks,
   doc_to_chunks |-> st.doc_to_chunks]

\* add_document(doc_id, content) as a function of the store
\* st = [documents, chunks, doc_to_chunks].
AddDocumentTo(st, doc_id, content) ==
  LET new == SplitTextIntoChunks(TextOf(content), doc_id)
      start_idx == Len(st.chunks)
  IN [documents |-> DictSet(st.documents, doc_id, content),
      chunks |-> st.chunks \o new,
      doc_to_chunks |->
        IF new = <<>> THEN st.doc_to_chunks
        ELSE DictSet(st.doc_to_chunks, doc_id,
                     ChunksOf(st.doc_to_chunks, doc_id)
                       \o NewPositions(start_idx, Len(new)))]

Store == [documents |-> documents, chunks |-> chunks,
          doc_to_chunks |-> doc_to_chunks]

EmptyDict == [x \in {} |-> <<>>]

\* The key order of a dictionary after d[k] = v: a new key goes last, a key
\* already present keeps its place.
KeysAfter(keys, d, k) == IF k \in DOMAIN d THEN keys ELSE Append(keys, k)

IndexIdle ==
  /\ documents = EmptyDict
  /\ document_keys = <<>>
  /\ chunks = <<>>
  /\ doc_to_chunks = EmptyDict
  /\ reqPc = "index"
  /\ query = <<>>
  /\ relevant_chunks = <<>>
  /\ selected_chunks = <<>>

\* ------------------------------------------------------------------------
\* AIRetrieverIndex: delegated-scoring retrieval
\* ------------------------------------------------------------------------

\* Scores are the floats _get_ai_score returns, in hundredths: 0..100.
RELEVANCE_THRESHOLD == 25
FALLBACK_TOP == 5
MAX_SELECTED == 3
CHARS_PER_TOKEN == 4
BUDGET_DIVISOR == 4

\* list.sort(key=score, reverse=True): descending and stable.
RECURSIVE InsertDesc(_, _)
InsertDesc(sorted, e) ==
  IF sorted = <<>> THEN <<e>>
  ELSE IF Head(sorted)[2] >= e[2]
       THEN <<Head(sorted)>> \o InsertDesc(Tail(sorted), e)
       ELSE <<e>> \o sorted

RECURSIVE SortDesc(_)
SortDesc(s) ==
  IF s = <<>> THEN <<>> ELSE InsertDesc(SortDesc(Front(s)), s[Len(s)])

\* score_chunks_with_ai(query); score[i] is what _get_ai_score returns for
\* the chunk at position i-1.
ScoreChunksWithAi(chs, q, score) ==
  IF chs = <<>> \/ Strip(q) = <<>> THEN <<>>
  ELSE SortDesc([i \in 1..Len(chs) |-> <<i - 1, score[i]>>])

IsRelevant(pair) == pair[2] > RELEVANCE_THRESHOLD

\* [(idx, score) for idx, score in scored_chunks if score > 0.25]
RECURSIVE FilterRelevant(_)
FilterRelevant(s) ==
  IF s = <<>> THEN <<>>
  ELSE IF IsRelevant(Head(s)) THEN <<Head(s)>> \o FilterRelevant(Tail(s))
       ELSE FilterRelevant(Tail(s))

\* lines 206-211: the candidates handed to the selection loop
RelevantChunks(scored_chunks) ==
  LET relevant == FilterRelevant(scored_chunks) IN
  IF relevant = <<>>
  THEN SubSeq(scored_chunks, 1, IF Len(scored_chunks) < FALLBACK_TOP
                                THEN Len(scored_chunks) ELSE FALLBACK_TOP)
  ELSE relevant

\* len(chunk["text"]) // 4
ChunkTokens(chunk) == StrLen(chunk.text) \div CHARS_PER_TOKEN

\* max_tokens = self.max_context_tokens // 4
MaxTokens == max_context_tokens \div BUDGET_DIVISOR

\* chunk.copy() with "relevance_score" set
WithScore(chunk, score) ==
  [chunk_id |-> chunk.chunk_id, doc_id |-> chunk.doc_id,
   chunk_index |-> chunk.chunk_index, text |-> chunk.text,
   char_length |-> chunk.char_length, relevance_score |-> score]

\* SelectStep without the exemption of the first candidate.
SelectStep_NoFirstExempt(st, chs, pair) ==
  IF st.stop THEN st
  ELSE IF pair[1] >= Len(chs) THEN st
  ELSE LET chunk == chs[pair[1] + 1] IN
       IF st.total + ChunkTokens(chunk) > MaxTokens
       THEN [st EXCEPT !.stop = TRUE]
       ELSE [selected |-> Append(st.selected, WithScore(chunk, pair[2])),
             total |-> st.total + ChunkTokens(chunk),
             stop |-> Len(st.selected) + 1 >= MAX_SELECTED]

\* One iteration of the selection loop; st = [selected, total, stop].
SelectStep(st, chs, pair) ==
  IF st.stop THEN st
  ELSE IF pair[1] >= Len(chs) THEN st
  ELSE LET chunk == chs[pair[1] + 1] IN
       IF st.total + ChunkTokens(chunk) > MaxTokens /\ st.selected # <<>>
       THEN [st EXCEPT !.stop = TRUE]
       ELSE [selected |-> Append(st.selected, WithScore(chunk, pair[2])),
             total |-> st.total + ChunkTokens(chunk),
             stop |-> Len(st.selected) + 1 >= MAX_SELECTED]

RECURSIVE SelectLoop(_, _, _)
SelectLoop(cands, st, chs) ==
  IF cands = <<>> THEN st
  ELSE SelectLoop(Tail(cands), SelectStep(st, chs, Head(cands)), chs)

SelectChunks(chs, cands) ==
  SelectLoop(cands, [selected |-> <<>>, total |-> 0, stop |-> FALSE], chs).selected

\* ------------------------------------------------------------------------
\* AIRetrieverIndex._get_ai_score
\* ------------------------------------------------------------------------

\* A response of the text-generation service is the list of the pieces
\* chat_stream yields, each a list of characters, or an exception.
DIGITS == <<"0", "1", "2", "3", "4", "5", "6", "7", "8", "9">>

IsDigit(c) == \E d \in 1..10 : DIGITS[d] = c

DigitValue(c) == (CHOOSE d \in 1..10 : DIGITS[d] = c) - 1

\* full_response += chunk_resp, for every piece
RECURSIVE FullResponse(_)
FullResponse(pieces) ==
  IF pieces = <<>> THEN <<>> ELSE Head(pieces) \o FullResponse(Tail(pieces))

\* The length of the longest run of digits of s that starts at i.
RECURSIVE DigitRun(_, _)
DigitRun(s, i) ==
  IF i > Len(s) \/ ~IsDigit(s[i]) THEN 0 ELSE 1 + DigitRun(s, i + 1)

\* r'(\d+\.\d+)' matches at i: digits, a point, digits, each run as long as
\* it can be.
MatchesAt(s, i) ==
  /\ DigitRun(s, i) > 0
  /\ i + DigitRun(s, i) <= Len(s)
  /\ s[i + DigitRun(s, i)] = "."
  /\ DigitRun(s, i + DigitRun(s, i) + 1) > 0

\* int(digits)
RECURSIVE IntOf(_)
IntOf(ds) ==
  IF ds = <<>> THEN 0 ELSE 10 * IntOf(Front(ds)) + DigitValue(ds[Len(ds)])

\* float(score_match.group(1)) in hundredths, as scores are kept, for a
\* match with one or two digits after the point.
FloatAt(s, i) ==
  LET n == DigitRun(s, i)
      m == DigitRun(s, i + n + 1)
      frac == SubSeq(s, i + n + 1, i + n + m)
  IN 100 * IntOf(SubSeq(s, i, i + n - 1))
       + (IF m = 1 THEN 10 * IntOf(frac) ELSE IntOf(SubSeq(frac, 1, 2)))

\* The clamp left out.
Clamp_None(score) == score

\* max(0.0, min(1.0, score))
Clamp(score) == IF score > 100 THEN 100 ELSE IF score < 0 THEN 0 ELSE score

\* _get_ai_score(query, chunk), resp being what chat_stream does when called:
\* [raises |-> TRUE] or [raises |-> FALSE, pieces |-> ...].
GetAiScore(resp) ==
  IF resp.raises THEN 0
  ELSE LET full_response == FullResponse(resp.pieces) IN
       IF \E i \in 1..Len(full_response) : MatchesAt(full_response, i)
       THEN LET first == CHOOSE i \in 1..Len(full_response) :
                           /\ MatchesAt(full_response, i)
                           /\ \A j \in 1..(i - 1) : ~MatchesAt(full_response, j)
            IN Clamp(FloatAt(full_response, first))
       ELSE 0


\* ------------------------------------------------------------------------
\* Assets: the image and file dictionaries of a document
\* ------------------------------------------------------------------------

\* n bytes of value b.  Byte strings are run-length encoded like texts.
Bytes(b, n) == Norm(<<Run(b, n)>>)

\* {"content": ..., "mime": ..., "source": ..., "filename": ...}.  A source is
\* kept as <<prefix, rest>>, the prefix being "http://", "https://" or "";
\* filename <<>> stands for a dictionary without the key.
Asset(source, mime, content, filename) ==
  [source |-> source, mime |-> mime, content |-> content, filename |-> filename]

\* document.get("images", []) and document.get("files", [])
DocImages(document) ==
  IF "images" \in DOMAIN document THEN document.images ELSE <<>>

DocFiles(document) ==
  IF "files" \in DOMAIN document THEN document.files ELSE <<>>

\* ------------------------------------------------------------------------
\* AIRetrieverIndex.get_document_assets
\* ------------------------------------------------------------------------

\* Document ids and markers are kept as the parts they are built from:
\* <<"docs://", url>>, <<"docs://", url, "#chunk-", n>>, <<"uploaded://", name>>,
\* and <<"", name>> for a bare asset id; a part from the third on begins
\* with "#", and no other part holds one.

\* marker.startswith("docs://")
StartsWithDocs(marker) == marker[1] = "docs://"

\* '#' in marker
HasHash(marker) == Len(marker) > 2

\* marker.split('#')[0]
BeforeHash(marker) == SubSeq(marker, 1, 2)

\* document.get("meta", {}); a key that is absent reads as falsy
DocMeta(document) ==
  IF "meta" \in DOMAIN document THEN document.meta
  ELSE [is_chunk |-> FALSE, parent_document |-> <<>>]

\* meta.get("is_chunk") and meta.get("parent_document")
IsChunkDoc(document) ==
  DocMeta(document).is_chunk /\ DocMeta(document).parent_document # <<>>

EmptyAssets == [images |-> <<>>, files |-> <<>>]

AssetsOf(document) ==
  [images |-> DocImages(document), files |-> DocFiles(document)]

\* Case 1, lines 246-281: the marker is a docs:// id.
DocsCase(docs, marker) ==
  LET found == marker \in DOMAIN docs
      parent_doc_id == DocMeta(docs[marker]).parent_document
  IN IF found /\ (DocImages(docs[marker]) # <<>> \/ DocFiles(docs[marker]) # <<>>)
     THEN AssetsOf(docs[marker])
     ELSE IF found /\ IsChunkDoc(docs[marker]) /\ parent_doc_id \in DOMAIN docs
     THEN AssetsOf(docs[parent_doc_id])
     ELSE IF HasHash(marker) /\ BeforeHash(marker) # marker
             /\ BeforeHash(marker) \in DOMAIN docs
     THEN AssetsOf(docs[BeforeHash(marker)])
     ELSE EmptyAssets

\* The comparison of the source inverted.
WithSource_Inverted(images, marker) ==
  SelectSeq(images, LAMBDA img : img.source # marker)

\* The images of the list whose source is the marker, in list order.
WithSource(images, marker) == SelectSeq(images, LAMBDA img : img.source = marker)

\* Case 2 with "return just this image" forgotten: all images of the owner.
SourceCase_AllImages(docs, keys, marker) ==
  IF \E i \in 1..Len(keys) : WithSource(DocImages(docs[keys[i]]), marker) # <<>>
  THEN LET i == CHOOSE i \in 1..Len(keys) :
                  WithSource(DocImages(docs[keys[i]]), marker) # <<>>
       IN [images |-> DocImages(docs[keys[i]]), files |-> <<>>]
  ELSE EmptyAssets

\* Case 2, lines 285-304: the marker is an image source; the documents are
\* searched in dictionary order, each one's images and then, for a chunk,
\* its parent's.
RECURSIVE SourceCase(_, _, _)
SourceCase(docs, keys, marker) ==
  IF keys = <<>> THEN EmptyAssets
  ELSE LET document == docs[Head(keys)]
           own == WithSource(DocImages(document), marker)
           parent_doc_id == DocMeta(document).parent_document
           parents == IF IsChunkDoc(document) /\ parent_doc_id \in DOMAIN docs
                      THEN WithSource(DocImages(docs[parent_doc_id]), marker)
                      ELSE <<>>
       IN IF own # <<>> THEN [images |-> <<own[1]>>, files |-> <<>>]
          ELSE IF parents # <<>> THEN [images |-> <<parents[1]>>, files |-> <<>>]
          ELSE SourceCase(docs, Tail(keys), marker)

\* if marker.startswith("docs://"): ... else: ...
IsDocumentId(marker) == StartsWithDocs(marker)

\* get_document_assets(marker) on a store with documents docs, keys in order
GetDocumentAssets(docs, keys, marker) ==
  IF IsDocumentId(marker) THEN DocsCase(docs, marker)
  ELSE SourceCase(docs, keys, marker)

\* ------------------------------------------------------------------------
\* ask.py: the asset events of async_json_stream
\* ------------------------------------------------------------------------

\* base64.b64encode: three bytes give four characters of this alphabet, a
\* last group of one or two bytes is padded with "=".
B64_ALPHABET == <<
  "A", "B", "C", "D", "E", "F", "G", "H", "I", "J", "K", "L", "M", "N", "O", "P",
  "Q", "R", "S", "T", "U", "V", "W", "X", "Y", "Z", "a", "b", "c", "d", "e", "f",
  "g", "h", "i", "j", "k", "l", "m", "n", "o", "p", "q", "r", "s", "t", "u", "v",
  "w", "x", "y", "z", "0", "1", "2", "3", "4", "5", "6", "7", "8", "9", "+", "/">>

B64Char(sextet) == B64_ALPHABET[sextet + 1]

\* The four characters of a group of one, two or three bytes.
B64Group(bs) ==
  LET b1 == bs[1]
      b2 == IF Len(bs) >= 2 THEN bs[2] ELSE 0
      b3 == IF Len(bs) >= 3 THEN bs[3] ELSE 0
  IN <<B64Char(b1 \div 4),
       B64Char((b1 % 4) * 16 + (b2 \div 16)),
       IF Len(bs) >= 2 THEN B64Char((b2 % 16) * 4 + (b3 \div 64)) ELSE "=",
       IF Len(bs) >= 3 THEN B64Char(b3 % 64) ELSE "=">>

\* One run of bytes read into the encoder; st = [out, carry]: the groups
\* written (run-length encoded, a run being a group and its repetitions)
\* and the bytes of the group being filled.
B64Run(st, r) ==
  LET take == IF st.carry = <<>> THEN 0
              ELSE IF r.n < 3 - Len(st.carry) THEN r.n ELSE 3 - Len(st.carry)
      filled == st.carry \o [i \in 1..take |-> r.c]
      out1 == IF Len(filled) = 3 THEN st.out \o <<Run(B64Group(filled), 1)>>
              ELSE st.out
      carry1 == IF Len(filled) = 3 THEN <<>> ELSE filled
      rest == r.n - take
  IN IF rest = 0 THEN [out |-> out1, carry |-> carry1]
     ELSE [out |-> out1 \o <<Run(B64Group(<<r.c, r.c, r.c>>), rest \div 3)>>,
           carry |-> [i \in 1..(rest % 3) |-> r.c]]

RECURSIVE B64Loop(_, _)
B64Loop(bytes, st) ==
  IF bytes = <<>> THEN st ELSE B64Loop(Tail(bytes), B64Run(st, Head(bytes)))

\* base64.b64encode(content).decode("ascii")
B64Encode(content) ==
  LET st == B64Loop(content, [out |-> <<>>, carry |-> <<>>])
  IN Norm(IF st.carry = <<>> THEN st.out
          ELSE st.out \o <<Run(B64Group(st.carry), 1)>>)

\* base64.b64decode: the value of a character, and the bytes of a group.
B64Value(ch) == CHOOSE v \in 0..63 : B64Char(v) = ch

B64GroupBytes(g) ==
  LET v1 == B64Value(g[1])
      v2 == B64Value(g[2])
      v3 == IF g[3] = "=" THEN 0 ELSE B64Value(g[3])
      v4 == IF g[4] = "=" THEN 0 ELSE B64Value(g[4])
      b1 == v1 * 4 + (v2 \div 16)
      b2 == (v2 % 16) * 16 + (v3 \div 4)
      b3 == (v3 % 4) * 64 + v4
  IN IF g[3] = "=" THEN <<b1>>
     ELSE IF g[4] = "=" THEN <<b1, b2>>
     ELSE <<b1, b2, b3>>

\* The bytes of n repetitions of a group.
B64RunBytes(g, n) ==
  LET bs == B64GroupBytes(g) IN
  IF Len(bs) = 3 /\ bs[1] = bs[2] /\ bs[2] = bs[3] THEN <<Run(bs[1], 3 * n)>>
  ELSE [i \in 1..(Len(bs) * n) |-> Run(bs[((i - 1) % Len(bs)) + 1], 1)]

RECURSIVE B64Decode(_)
B64Decode(text) ==
  IF text = <<>> THEN <<>>
  ELSE Cat(B64RunBytes(Head(text).c, Head(text).n), B64Decode(Tail(text)))

\* _as_bytes(x) for the bytes the crawler and the upload handler store
AsBytes(x) == x

\* _is_httpish(u)
IsHttpish(u) == u[1] \in {"http://", "https://"}

MAX_FILE_BYTES == 5000000

\* The JSON object of an image or file event, lines 319-330 and 382-393.
Payload(type, marker, mime, content, filename, src) ==
  IF IsHttpish(src)
  THEN [type |-> type, doc_id |-> marker, mime |-> mime,
        size |-> StrLen(content), filename |-> filename, url |-> src]
  ELSE [type |-> type, doc_id |-> marker, mime |-> mime,
        size |-> StrLen(content), filename |-> filename,
        content_b64 |-> B64Encode(content)]

\* img.get("filename", f"image_{img_idx+1}")
ImageFilename(img, img_idx) ==
  IF img.filename = <<>> THEN <<"image_", img_idx + 1>> ELSE img.filename

\* f.get("filename", f"file_from_{...}")
FileFilename(f, marker) ==
  IF f.filename = <<>> THEN <<"file_from_", marker[2]>> ELSE f.filename

\* ------------------------------------------------------------------------
\* crawler.py: URLs and domain scoping
\* ------------------------------------------------------------------------

\* A URL as urlparse sees it; netloc is kept as its dot-separated labels.
Url(scheme, netloc, path, frag) ==
  [scheme |-> scheme, netloc |-> netloc, path |-> path, frag |-> frag]

\* _remove_fragment(u)
RemoveFragment(u) == [u EXCEPT !.frag = ""]

\* _is_http_url(u)
IsHttpUrl(u) == u.scheme \in {"http", "https"}

\* _registrable_domain(netloc): ".".join(parts[-2:]) if len(parts) >= 2
RegistrableDomain(netloc) ==
  IF Len(netloc) >= 2 THEN SubSeq(netloc, Len(netloc) - 1, Len(netloc))
  ELSE netloc

\* The scope test with the comparison dropped: every host is in scope.
SameDomainOrSubdomain_Any(target, base_reg_domain) == TRUE

\* _same_domain_or_subdomain(target, base_reg_domain): on label lists,
\* target.endswith("." + base) is "base is a proper suffix of target".
SameDomainOrSubdomain(target, base_reg_domain) ==
  \/ target = base_reg_domain
  \/ /\ Len(target) > Len(base_reg_domain)
     /\ SubSeq(target, Len(target) - Len(base_reg_domain) + 1, Len(target))
          = base_reg_domain

\* ------------------------------------------------------------------------
\* crawler.py: crawl
\* ------------------------------------------------------------------------

MAX_DOC_SIZE == 20000

\* f"docs://{url}" and f"docs://{url}#chunk-{n}", kept as their parts
PageDocId(url) == <<"docs://", url>>
ChunkDocId(url, n) == <<"docs://", url, "#chunk-", n>>

\* The document recorded for a fetched resource: lines 578-598, 666-681.
PageDoc(url, content_type, text, files) ==
  [doc_id |-> PageDocId(url), source_url |-> url,
   content_type |-> content_type, text |-> text,
   images |-> <<>>, files |-> files,
   meta |-> [is_chunk |-> FALSE, parent_document |-> <<>>]]

\* A chunk-document of a large text: lines 609-628, 692-712.
ChunkDoc(url, content_type, n, chunk_text) ==
  [doc_id |-> ChunkDocId(url, n), source_url |-> url,
   content_type |-> content_type, text |-> chunk_text,
   images |-> <<>>, files |-> <<>>,
   meta |-> [is_chunk |-> TRUE, parent_document |-> PageDocId(url)]]

RECURSIVE PutChunkDocs(_, _, _, _, _)
PutChunkDocs(pgs, url, content_type, text_chunks, i) ==
  IF i > Len(text_chunks) THEN pgs
  ELSE PutChunkDocs(DictSet(pgs, ChunkDocId(url, i),
                            ChunkDoc(url, content_type, i, text_chunks[i])),
                    url, content_type, text_chunks, i + 1)

\* result.pages after the document of url, and the chunk-documents of a text
\* longer than max_doc_size, are recorded.
StoreDocs(pgs, url, content_type, text, files) ==
  LET pgs1 == DictSet(pgs, PageDocId(url), PageDoc(url, content_type, text, files))
  IN IF StrLen(text) > MAX_DOC_SIZE
     THEN PutChunkDocs(pgs1, url, content_type, SplitLargeText(text, MAX_DOC_SIZE), 1)
     ELSE pgs1

\* The link loop appending at the depth of the page, not one deeper.
RECURSIVE EnqueueLinks_SameDepth(_, _, _, _, _, _, _)
EnqueueLinks_SameDepth(links, n, q, vis, npages, depth, base_reg) ==
  IF n = 0 THEN q
  ELSE LET q1 == EnqueueLinks_SameDepth(links, n - 1, q, vis, npages, depth, base_reg)
           link == RemoveFragment(links[n])
       IN IF /\ IsHttpUrl(link)
             /\ SameDomainOrSubdomain(link.netloc, base_reg)
             /\ link \notin vis
             /\ npages + Len(q1) < MAX_PAGES
          THEN Append(q1, <<link, depth>>)
          ELSE q1

\* "Enqueue internal links": the frontier after the first n links of the
\* page are handled (lines 716-724); npages is len(result.pages).
RECURSIVE EnqueueLinks(_, _, _, _, _, _, _)
EnqueueLinks(links, n, q, vis, npages, depth, base_reg) ==
  IF n = 0 THEN q
  ELSE LET q1 == EnqueueLinks(links, n - 1, q, vis, npages, depth, base_reg)
           link == RemoveFragment(links[n])
       IN IF /\ IsHttpUrl(link)
             /\ SameDomainOrSubdomain(link.netloc, base_reg)
             /\ link \notin vis
             /\ npages + Len(q1) < MAX_PAGES
          THEN Append(q1, <<link, depth + 1>>)
          ELSE q1

\* The loop condition without the page budget.
LoopCondition_NoBudget == queue # <<>>

\* while queue and len(result.pages) < settings.MAX_PAGES
LoopCondition == queue # <<>> /\ Cardinality(DOMAIN pages) < MAX_PAGES

\* The pop guard with the visited test missing.
ShouldSkip_NoVisited(url, depth) == depth > MAX_DEPTH

\* The pop guard with the depth test missing.
ShouldSkip_NoDepth(url, depth) == url \in visited

\* if url in visited or depth > settings.MAX_DEPTH: continue
ShouldSkip(url, depth) == url \in visited \/ depth > MAX_DEPTH

\* An exception in the loop body leaves crawl.
AfterException_Propagate == "raised"

\* except Exception as e: print, traceback.print_exc(); the loop goes on.
AfterException == "loop"

\* No crawl in progress; the settings hold their defaults.
CrawlIdle ==
  /\ MAX_PAGES = 50
  /\ MAX_DEPTH = 3
  /\ root_url = <<>>
  /\ queue = <<>>
  /\ visited = {}
  /\ pages = EmptyDict
  /\ crawlPc = "idle"
  /\ fetchLog = <<>>
  /\ lastLinks = {}
  /\ askPc = "idle"
  /\ askIndexed = {}

\* No stream under way.
StreamIdle ==
  /\ streamPc = "idle"
  /\ full_answer = <<>>
  /\ events = <<>>
  /\ image_markers = <<>>
  /\ file_markers = <<>>
  /\ markerIdx = 0
  /\ processed_assets = {}
  /\ processed_markers = {}
  /\ resolved = <<>>

\* The handlers of the event loop.
Handlers == {"h1", "h2"}

\* No request has been received.
HandlersIdle ==
  /\ hPc = [h \in Handlers |-> "idle"]
  /\ hFile = [h \in Handlers |-> FALSE]
  /\ hSeen = [h \in Handlers |-> <<>>]
  /\ hRequests = 0

\* No ranking under way.
ScoreIdle ==
  /\ scorePc = "idle"
  /\ scored = <<>>
  /\ response = <<>>

\* The tasks that use the controller.
Tasks == {"t1", "t2", "t3"}

MAX_CONCURRENT_REQUESTS == 100

\* concurrency_controller = ConcurrencyController(), unused.
CtrlIdle ==
  /\ max_concurrent = MAX_CONCURRENT_REQUESTS
  /\ semValue = MAX_CONCURRENT_REQUESTS
  /\ waiters = <<>>
  /\ woken = {}
  /\ active_requests = 0
  /\ queued_requests = 0
  /\ total_requests = 0
  /\ taskPc = [t \in Tasks |-> "idle"]

\* No download made.
DownloadsIdle ==
  /\ downloaded_binary_sources = {}
  /\ gets = <<>>

OtherIdle == HandlersIdle /\ ScoreIdle /\ CtrlIdle /\ DownloadsIdle

\* ------------------------------------------------------------------------
\* The chunker as a function of its input
\* ------------------------------------------------------------------------

\* Input texts are at most MaxSegs segments, each a separator followed by a
\* body; the sizes sit on both sides of the chunker's thresholds.
MaxSegs == 3

Seps == {<<>>, Sps(1), NLs(1), NLs(2)}

Bodies == {X(1), X(MIN_CHUNK_CHARS - 1), X(max_chunk_chars - MIN_CHUNK_CHARS),
           X(max_chunk_chars - MIN_CHUNK_CHARS + 1), PAGE_OPEN}

Segments == {Cat(s, b) : s \in Seps, b \in Bodies}

RECURSIVE TextsOf(_)
TextsOf(n) ==
  IF n = 0 THEN {<<>>}
  ELSE LET shorter == TextsOf(n - 1) IN
       shorter \cup {Cat(t, g) : t \in shorter, g \in Segments}

InputTexts == TextsOf(MaxSegs)

DocId == "docs://d"

ChunkIdle ==
  /\ chText = <<>>
  /\ chOut = <<>>
  /\ chPc = "idle"

InitChunk ==
  /\ chText \in InputTexts
  /\ chOut = <<>>
  /\ chPc = "call"
  /\ IndexIdle
  /\ CrawlIdle
  /\ StreamIdle
  /\ OtherIdle

CallSplitText ==
  /\ chPc = "call"
  /\ chOut' = SplitTextIntoChunks(chText, DocId)
  /\ chPc' = "done"
  /\ UNCHANGED <<chText, indexVars, requestVars, settingsVars, crawlVars, askVars>>
  /\ UNCHANGED streamVars
  /\ UNCHANGED otherVars

NextChunk == CallSplitText

SpecChunk == InitChunk /\ [][NextChunk]_vars

\* ------------------------------------------------------------------------
\* The index under a sequence of requests (ask_stream: add_document for
\* every crawled page and for the upload, then retrieve_relevant_context)
\* ------------------------------------------------------------------------

\* add_document is not called once the store holds MaxChunks chunks.
MaxChunks == 4

DocIds == {"docs://a", "docs://b"}

\* a text of two chunks; a one-paragraph text of more than half the token
\* budget; one of more than the whole budget
TWO_CHUNK_TEXT == Cat(Cat(X(max_chunk_chars - MIN_CHUNK_CHARS), NLs(2)),
                      X(max_chunk_chars - MIN_CHUNK_CHARS))
BIG_TEXT == X(((MaxTokens \div 2) + 1) * CHARS_PER_TOKEN)
HUGE_TEXT == X((MaxTokens + 1) * CHARS_PER_TOKEN)

Content(t) == [text |-> t, images |-> <<>>, files |-> <<>>]

\* an image as _extract_from_binary returns it for a page of a PDF
PAGE_IMAGE == Asset(<<"", "page1_img1">>, "image/png", Bytes(7, 3), <<"page1_img1.png">>)

ContentWith(t, images, files) == [text |-> t, images |-> images, files |-> files]

\* What a crawl may find under each doc_id, from one request to the next.
ContentsOf(doc_id) ==
  IF doc_id = "docs://a"
  THEN {Content(<<>>), Content(TWO_CHUNK_TEXT), Content(BIG_TEXT)}
  ELSE {ContentWith(BIG_TEXT, <<PAGE_IMAGE>>, <<>>), Content(HUGE_TEXT)}

Queries == {<<>>, Sps(1), X(1)}

Scores == {RELEVANCE_THRESHOLD, RELEVANCE_THRESHOLD + 1, 90}

InitIndex ==
  /\ ChunkIdle
  /\ IndexIdle
  /\ CrawlIdle
  /\ StreamIdle
  /\ OtherIdle

\* global_index.add_document(doc_id, content)
AddDocument(doc_id, content) ==
  /\ reqPc = "index"
  /\ Len(AddDocumentTo(Store, doc_id, content).chunks) <= MaxChunks
  /\ documents' = AddDocumentTo(Store, doc_id, content).documents
  /\ document_keys' = KeysAfter(document_keys, documents, doc_id)
  /\ chunks' = AddDocumentTo(Store, doc_id, content).chunks
  /\ doc_to_chunks' = AddDocumentTo(Store, doc_id, content).doc_to_chunks
  /\ UNCHANGED <<requestVars, chunkVars, settingsVars, crawlVars, askVars>>
  /\ UNCHANGED streamVars
  /\ UNCHANGED otherVars

\* global_index.retrieve_relevant_context(q); score holds the answers of
\* the text-generation service, one per chunk.
RetrieveRelevantContext(q, score) ==
  /\ reqPc = "index"
  /\ query' = q
  /\ relevant_chunks' =
       IF chunks = <<>> THEN <<>>
       ELSE RelevantChunks(ScoreChunksWithAi(chunks, q, score))
  /\ selected_chunks' =
       IF chunks = <<>> THEN <<>>
       ELSE SelectChunks(chunks, RelevantChunks(ScoreChunksWithAi(chunks, q, score)))
  /\ reqPc' = "answered"
  /\ UNCHANGED <<indexVars, chunkVars, settingsVars, crawlVars, askVars>>
  /\ UNCHANGED streamVars
  /\ UNCHANGED otherVars

\* The request ends, and its locals with it; the next one begins.
NewRequest ==
  /\ reqPc = "answered"
  /\ reqPc' = "index"
  /\ query' = <<>>
  /\ relevant_chunks' = <<>>
  /\ selected_chunks' = <<>>
  /\ UNCHANGED <<indexVars, chunkVars, settingsVars, crawlVars, askVars>>
  /\ UNCHANGED streamVars
  /\ UNCHANGED otherVars

NextIndex ==
  \/ \E d \in DocIds : \E c \in ContentsOf(d) : AddDocument(d, c)
  \/ \E q \in Queries, score \in [1..Len(chunks) -> Scores] :
       RetrieveRelevantContext(q, score)
  \/ NewRequest

SpecIndex == InitIndex /\ [][NextIndex]_vars


\* ------------------------------------------------------------------------
\* One crawl, called by ask_stream
\* ------------------------------------------------------------------------

\* The settings range over 1..MaxPagesBound and 0..MaxDepthBound; a page
\* holds at most MaxLinks links.
MaxPagesBound == 3
MaxDepthBound == 1
MaxLinks == 2

DOCS_HOST == <<"docs", "example", "com">>
SUB_HOST == <<"sub", "docs", "example", "com">>
APEX_HOST == <<"example", "com">>
EVIL_HOST == <<"evil", "example", "org">>

DOCS_ROOT == Url("https", DOCS_HOST, "/", "")
EVIL_ROOT == Url("https", EVIL_HOST, "/", "")

Roots == {DOCS_ROOT, EVIL_ROOT}

\* The hrefs a page may hold, already joined to the page's URL.
LinkTargets ==
  {Url("https", DOCS_HOST, "/", "top"),
   Url("https", SUB_HOST, "/", ""),
   Url("http", APEX_HOST, "/", ""),
   Url("https", EVIL_HOST, "/", ""),
   Url("mailto", <<>>, "a@example.com", "")}

LinkLists == UNION {[1..n -> LinkTargets] : n \in 0..MaxLinks}

\* Extracted texts: a short one, and two longer than max_doc_size, of one
\* and of two blank-line-separated paragraphs.
SHORT_PAGE == X(1)
LONG_PAGE_1 == X(MAX_DOC_SIZE + 1)
LONG_PAGE_2 == Cat(Cat(X(MAX_DOC_SIZE - 5000), NLs(2)), X(MAX_DOC_SIZE - 5000))

HtmlTexts == {SHORT_PAGE, LONG_PAGE_2}
BinaryTexts == {<<>>, SHORT_PAGE, LONG_PAGE_1, LONG_PAGE_2}

\* What fetching and processing one URL can come to.
\*   kind "raise":  _fetch raises (network error, timeout)
\*   kind "status": a status other than 200
\*   kind "binary": 200, a content type that is not text/html
\*   kind "html":   200, text/html; upto = -1 when parsing or extraction
\*                  raises before the document is recorded, else the number
\*                  of links handled before the link loop ends (all of
\*                  them) or raises (at the last one)
Outcomes ==
  {[kind |-> k, text |-> <<>>, links |-> <<>>, upto |-> 0] : k \in {"raise", "status"}}
  \cup {[kind |-> "binary", text |-> t, links |-> <<>>, upto |-> 0] :
          t \in BinaryTexts}
  \cup UNION {{[kind |-> "html", text |-> t, links |-> l, upto |-> u] :
                 t \in HtmlTexts, u \in {-1, Len(l) - 1, Len(l)}} :
               l \in LinkLists}

Raised(o) ==
  \/ o.kind = "raise"
  \/ o.kind = "html" /\ o.upto < Len(o.links)

\* The iteration did not run to its end: an exception, or a status other
\* than 200.
Failed(o) == Raised(o) \/ o.kind = "status"

\* A document was recorded for the URL.
Stored(o) ==
  \/ o.kind = "binary"
  \/ o.kind = "html" /\ o.upto >= 0

\* The raw bytes of a non-HTML resource, as the one file of its document
RawFile(url) ==
  <<[content |-> "raw", mime |-> "application/pdf", source |-> url]>>

PagesAfter(o, url) ==
  IF o.kind = "binary" THEN StoreDocs(pages, url, "application/pdf", o.text, RawFile(url))
  ELSE IF o.kind = "html" /\ o.upto >= 0
       THEN StoreDocs(pages, url, "text/html", o.text, <<>>)
       ELSE pages

InitCrawl ==
  /\ ChunkIdle
  /\ IndexIdle
  /\ StreamIdle
  /\ OtherIdle
  /\ MAX_PAGES \in 1..MaxPagesBound
  /\ MAX_DEPTH \in 0..MaxDepthBound
  /\ root_url \in Roots
  /\ queue = <<<<root_url, 0>>>>
  /\ visited = {}
  /\ pages = EmptyDict
  /\ crawlPc = "loop"
  /\ fetchLog = <<>>
  /\ lastLinks = {}
  /\ askPc = "crawl"
  /\ askIndexed = {}

\* A loop iteration that pops an entry and skips it.
CrawlSkip ==
  /\ crawlPc = "loop"
  /\ LoopCondition
  /\ ShouldSkip(Head(queue)[1], Head(queue)[2])
  /\ queue' = Tail(queue)
  /\ lastLinks' = {}
  /\ UNCHANGED <<root_url, visited, pages, crawlPc, fetchLog>>
  /\ UNCHANGED <<chunkVars, indexVars, requestVars, settingsVars, askVars>>
  /\ UNCHANGED streamVars
  /\ UNCHANGED otherVars

\* A loop iteration that pops an entry, fetches it and processes it.
CrawlFetch(o) ==
  LET url == Head(queue)[1]
      depth == Head(queue)[2]
      base_reg == RegistrableDomain(root_url.netloc)
  IN
  /\ crawlPc = "loop"
  /\ LoopCondition
  /\ ~ShouldSkip(url, depth)
  /\ visited' = visited \cup {url}
  /\ fetchLog' = Append(fetchLog, [url |-> url, depth |-> depth,
                                   stored |-> Stored(o), failed |-> Failed(o)])
  /\ pages' = PagesAfter(o, url)
  /\ queue' = IF o.kind = "html" /\ o.upto >= 0
              THEN EnqueueLinks(o.links, o.upto, Tail(queue), visited \cup {url},
                                Cardinality(DOMAIN PagesAfter(o, url)), depth, base_reg)
              ELSE Tail(queue)
  /\ lastLinks' = IF o.kind = "html" /\ o.upto >= 0
                  THEN {o.links[i] : i \in 1..o.upto} ELSE {}
  /\ crawlPc' = IF Raised(o) THEN AfterException ELSE "loop"
  /\ UNCHANGED root_url
  /\ UNCHANGED <<chunkVars, indexVars, requestVars, settingsVars, askVars>>
  /\ UNCHANGED streamVars
  /\ UNCHANGED otherVars

\* The loop condition fails: return result.
CrawlReturn ==
  /\ crawlPc = "loop"
  /\ ~LoopCondition
  /\ crawlPc' = "done"
  /\ UNCHANGED <<root_url, queue, visited, pages, fetchLog, lastLinks>>
  /\ UNCHANGED <<chunkVars, indexVars, requestVars, settingsVars, askVars>>
  /\ UNCHANGED streamVars
  /\ UNCHANGED otherVars

\* ask_stream after "await crawl(kb_url)": add_document for every page of
\* the result, or the except branch; either way it goes on to retrieval.
AskStreamAfterCrawl ==
  /\ askPc = "crawl"
  /\ crawlPc \in {"done", "raised"}
  /\ askIndexed' = IF crawlPc = "done" THEN DOMAIN pages ELSE {}
  /\ askPc' = "retrieve"
  /\ UNCHANGED <<chunkVars, indexVars, requestVars, settingsVars, crawlVars>>
  /\ UNCHANGED streamVars
  /\ UNCHANGED otherVars

NextCrawl ==
  \/ CrawlSkip
  \/ \E o \in Outcomes : CrawlFetch(o)
  \/ CrawlReturn
  \/ AskStreamAfterCrawl

SpecCrawl == InitCrawl /\ [][NextCrawl]_vars


\* ------------------------------------------------------------------------
\* crawl, with the downloads of its HTML flow
\* ------------------------------------------------------------------------

\* A site: its seed, a second page, a linked document and an image. The
\* path is held as (stem, extension).
SITE_ROOT == Url("https", DOCS_HOST, <<"/", "">>, "")
GUIDE_PAGE == Url("https", DOCS_HOST, <<"/guide", "">>, "")
MANUAL_PDF == Url("https", DOCS_HOST, <<"/manual", ".pdf">>, "")
LOGO_PNG == Url("https", DOCS_HOST, <<"/logo", ".png">>, "")

\* exts
EXTS == {".pdf", ".docx", ".pptx", ".xlsx", ".zip"}

\* any(lower.endswith(ext) for ext in exts)
HasListedExt(href) == href.frag = "" /\ href.path[2] \in EXTS

\* The hrefs of a page that name a document to download.
LinkedFiles(anchors) == SelectSeq(anchors, HasListedExt)

\* One requests.get and what came back: status 0 when it raised.
Get(url, by, status, content_type, raw) ==
  [url |-> url, by |-> by, status |-> status, content_type |-> content_type,
   raw |-> raw]

\* The loops of _download_html_images and
\* _discover_and_download_linked_files over the first n of srcs, from
\* st = [downloaded, got, gets]; _fetch_bytes returns content for the URLs
\* of served and b"" for the others.
RECURSIVE DownloadLoop(_, _, _, _)
DownloadLoop(srcs, n, st, served) ==
  IF n = 0 THEN st
  ELSE LET s1 == DownloadLoop(srcs, n - 1, st, served)
           src == srcs[n]
           content == IF src \in served THEN "asset" ELSE ""
           s2 == [s1 EXCEPT !.gets =
                    Append(@, Get(src, "_fetch_bytes",
                                  IF src \in served THEN 200 ELSE 404,
                                  "", content))]
       IN IF ~IsHttpUrl(src) \/ src \in s1.downloaded THEN s1
          ELSE IF content # ""
               THEN [s2 EXCEPT !.got = Append(@, [content |-> content,
                                                   mime |-> "",
                                                   source |-> src]),
                               !.downloaded = @ \cup {src}]
               ELSE s2

\* The branch with every resource taken for HTML.
IsBinary_Never(content_type) == FALSE

\* if content_type and content_type != "text/html"
IsBinary(content_type) == content_type # "" /\ content_type # "text/html"

\* What _fetch can bring back for a URL: it raises, or a response with a
\* status, a Content-Type ("" when the header is missing) and a body, of
\* which the model keeps the extracted text, the <img> sources and the
\* <a> hrefs, both joined to the URL already. served: the URLs that
\* _fetch_bytes gets content for while the resource is processed.
Fetches ==
  {[status |-> st, content_type |-> "", raw |-> "", text |-> <<>>,
    imgs |-> <<>>, anchors |-> <<>>, served |-> {}] : st \in {0, 404}}
  \cup {[status |-> 200, content_type |-> ct, raw |-> "body", text |-> t,
         imgs |-> i, anchors |-> a, served |-> s] :
          ct \in {"text/html", "", "application/pdf"},
          t \in {SHORT_PAGE, LONG_PAGE_1},
          i \in {<<>>, <<LOGO_PNG>>},
          a \in {<<>>, <<MANUAL_PDF>>, <<GUIDE_PAGE, MANUAL_PDF>>},
          s \in {{}, {LOGO_PNG, MANUAL_PDF}}}

InitDownloads ==
  /\ ChunkIdle
  /\ IndexIdle
  /\ StreamIdle
  /\ HandlersIdle /\ ScoreIdle /\ CtrlIdle
  /\ MAX_PAGES = 50
  /\ MAX_DEPTH = 3
  /\ root_url = SITE_ROOT
  /\ queue = <<<<root_url, 0>>>>
  /\ visited = {}
  /\ downloaded_binary_sources = {}
  /\ gets = <<>>
  /\ pages = EmptyDict
  /\ crawlPc = "loop"
  /\ fetchLog = <<>>
  /\ lastLinks = {}
  /\ askPc = "idle"
  /\ askIndexed = {}

\* A loop iteration that pops an entry, fetches it and processes it, with
\* the requests it makes: lines 556-729.
CrawlVisit(r) ==
  LET url == Head(queue)[1]
      depth == Head(queue)[2]
      base_reg == RegistrableDomain(root_url.netloc)
      fetched == Append(gets, Get(url, "_fetch", r.status, r.content_type, r.raw))
      binary == r.status = 200 /\ IsBinary(r.content_type)
      html == r.status = 200 /\ ~IsBinary(r.content_type)
      st0 == [downloaded |-> downloaded_binary_sources, got |-> <<>>,
              gets |-> fetched]
      st1 == DownloadLoop(r.imgs, Len(r.imgs), st0, r.served)
      files == LinkedFiles(r.anchors)
      st2 == DownloadLoop(files, Len(files), [st1 EXCEPT !.got = <<>>], r.served)
      pages1 == IF binary
                THEN StoreDocs(pages, url, r.content_type, r.text,
                               <<[content |-> r.raw, mime |-> r.content_type,
                                  source |-> url]>>)
                ELSE IF html
                     THEN StoreDocs(pages, url, r.content_type, r.text, st2.got)
                     ELSE pages
  IN
  /\ crawlPc = "loop"
  /\ LoopCondition
  /\ ~ShouldSkip(url, depth)
  /\ visited' = visited \cup {url}
  /\ fetchLog' = Append(fetchLog, [url |-> url, depth |-> depth,
                                   stored |-> r.status = 200,
                                   failed |-> r.status # 200])
  /\ gets' = IF html THEN st2.gets ELSE fetched
  /\ downloaded_binary_sources' =
       IF html THEN st2.downloaded ELSE downloaded_binary_sources
  /\ pages' = pages1
  /\ queue' = IF html
              THEN EnqueueLinks(r.anchors, Len(r.anchors), Tail(queue),
                                visited \cup {url}, Cardinality(DOMAIN pages1),
                                depth, base_reg)
              ELSE Tail(queue)
  /\ lastLinks' = IF html THEN {r.anchors[i] : i \in 1..Len(r.anchors)} ELSE {}
  /\ crawlPc' = IF r.status = 0 THEN AfterException ELSE "loop"
  /\ UNCHANGED root_url
  /\ UNCHANGED <<chunkVars, indexVars, requestVars, settingsVars, askVars>>
  /\ UNCHANGED streamVars
  /\ UNCHANGED <<handlerVars, scoreVars, ctrlVars>>

NextDownloads ==
  \/ CrawlSkip
  \/ \E r \in Fetches : CrawlVisit(r)
  \/ CrawlReturn

SpecDownloads == InitDownloads /\ [][NextDownloads]_vars


\* ------------------------------------------------------------------------
\* async_json_stream: the marker loops
\* ------------------------------------------------------------------------

\* The text event with the order of the stream reversed.
EmitText_Prepend(evs, chunk) == <<[type |-> "text", content |-> chunk]>> \o evs

\* yield json.dumps({"type": "text", "content": chunk}) + "\n"
EmitText(evs, chunk) == Append(evs, [type |-> "text", content |-> chunk])

\* The marker test left out: every occurrence is taken up.
AlreadyProcessed_Never(marker, markers) == FALSE

\* if marker in processed_markers: continue
AlreadyProcessed(marker, markers) == marker \in markers

\* The size test left out.
TooLarge_Never(content) == FALSE

\* if len(content) > 5000000: continue
TooLarge(content) == StrLen(content) > MAX_FILE_BYTES

\* The payload with the bytes always inlined, next to the url if there is one.
PayloadOf_AlwaysInline(type, marker, mime, content, filename, src) ==
  IF IsHttpish(src)
  THEN [type |-> type, doc_id |-> marker, mime |-> mime,
        size |-> StrLen(content), filename |-> filename, url |-> src,
        content_b64 |-> B64Encode(content)]
  ELSE [type |-> type, doc_id |-> marker, mime |-> mime,
        size |-> StrLen(content), filename |-> filename,
        content_b64 |-> B64Encode(content)]

PayloadOf(type, marker, mime, content, filename, src) ==
  Payload(type, marker, mime, content, filename, src)

\* The body of "for img_idx, img in enumerate(assets["images"])" (kind
\* "image", lines 296-333) and of "for f in assets["files"]" (kind "file",
\* lines 355-396); st = [events, processed_assets, attached], attached being
\* marker_images_attached or marker_files_attached.
AssetStep(st, kind, marker, asset, idx) ==
  LET content == AsBytes(asset.content)
      ident == <<asset.source, StrLen(content), asset.mime>>
      asset_key == <<marker, kind, asset.source, StrLen(content)>>
      filename == IF kind = "image" THEN ImageFilename(asset, idx)
                  ELSE FileFilename(asset, marker)
  IN IF content = <<>> THEN st
     ELSE IF kind = "file" /\ TooLarge(content) THEN st
     ELSE IF ident \in st.attached THEN st
     ELSE IF asset_key \in st.processed_assets
          THEN [st EXCEPT !.attached = @ \cup {ident}]
     ELSE [events |-> Append(st.events,
                             PayloadOf(kind, marker, asset.mime, content,
                                       filename, asset.source)),
           processed_assets |-> st.processed_assets \cup {asset_key},
           attached |-> st.attached \cup {ident}]

RECURSIVE AssetLoop(_, _, _, _, _)
AssetLoop(assets, idx, st, kind, marker) ==
  IF idx >= Len(assets) THEN st
  ELSE AssetLoop(assets, idx + 1,
                 AssetStep(st, kind, marker, assets[idx + 1], idx), kind, marker)

\* Lines 277-286: the assets of an image marker, with the second look-up
\* under the part of the marker before '#' when the first gave nothing.
ImageMarkerAssets(docs, keys, marker) ==
  LET assets == GetDocumentAssets(docs, keys, marker) IN
  IF assets.images = <<>> /\ assets.files = <<>> /\ HasHash(marker)
  THEN GetDocumentAssets(docs, keys, BeforeHash(marker))
  ELSE assets

\* The events and processed_assets once the assets of one marker are handled.
AfterMarker(kind, marker) ==
  LET assets == IF kind = "image"
                THEN ImageMarkerAssets(documents, document_keys, marker).images
                ELSE GetDocumentAssets(documents, document_keys, marker).files
  IN AssetLoop(assets, 0,
               [events |-> events, processed_assets |-> processed_assets,
                attached |-> {}],
               kind, marker)

\* ------------------------------------------------------------------------
\* One answer stream over a store
\* ------------------------------------------------------------------------

\* An answer holds at most MaxFragments fragments.
MaxFragments == 2

\* The documents of the store: a crawled HTML page with a downloaded image,
\* three data-URI images (source "inline": two of one size and mime, one
\* empty) and three linked files (one of exactly the ceiling, one over it,
\* one small), a chunk-document of that page, a crawled PDF with an
\* embedded image, and an uploaded image.
PAGE_URL == "a"
PDF_URL == "b"

CDN_IMAGE_1 == Asset(<<"https://", "cdn/a.png">>, "image/png", Bytes(1, 4), <<"a.png">>)
INLINE_IMAGE_1 == Asset(<<"", "inline">>, "image/png", Bytes(2, 4), <<"inline_image_1.png">>)
INLINE_IMAGE_2 == Asset(<<"", "inline">>, "image/png", Bytes(3, 4), <<"inline_image_2.png">>)
INLINE_EMPTY == Asset(<<"", "inline">>, "image/png", <<>>, <<"inline_image_3.png">>)
CEILING_FILE == Asset(<<"https://", "cdn/c.zip">>, "application/zip",
                      Bytes(0, MAX_FILE_BYTES), <<"c.zip">>)
LARGE_FILE == Asset(<<"https://", "cdn/l.zip">>, "application/zip",
                    Bytes(0, MAX_FILE_BYTES + 1), <<"l.zip">>)
SMALL_FILE == Asset(<<"https://", "cdn/s.pdf">>, "application/pdf",
                    Cat(Bytes(37, 1), Bytes(80, 1)), <<"s.pdf">>)
EMBEDDED_IMAGE == Asset(<<"", "page1_img1">>, "image/png", Bytes(7, 5),
                        <<"page1_img1.png">>)
UPLOADED_IMAGE == Asset(<<"", "pic.png">>, "image/png", Bytes(9, 2), <<>>)

WithAssets(document, images, files) ==
  [document EXCEPT !.images = images, !.files = files]

PAGE_DOC == WithAssets(PageDoc(PAGE_URL, "text/html", X(1), <<>>),
                       <<CDN_IMAGE_1, INLINE_IMAGE_1, INLINE_EMPTY, INLINE_IMAGE_2>>,
                       <<LARGE_FILE, CEILING_FILE, SMALL_FILE>>)
PAGE_CHUNK_DOC == ChunkDoc(PAGE_URL, "text/html", 1, X(1))
\* the raw bytes of the PDF, the one file of its document (lines 584-589)
PDF_RAW == Asset(<<"https://", PDF_URL>>, "application/pdf", Bytes(37, 6), <<PDF_URL>>)
PDF_DOC == WithAssets(PageDoc(PDF_URL, "application/pdf", <<>>, <<>>),
                      <<EMBEDDED_IMAGE>>, <<PDF_RAW>>)

UPLOADED_DOC_ID == <<"uploaded://", "0f-pic.png">>

\* lines 140-152: the document of an uploaded image
UPLOADED_DOC ==
  [doc_id |-> UPLOADED_DOC_ID, text |-> <<>>, images |-> <<UPLOADED_IMAGE>>,
   files |-> <<>>, source_url |-> <<>>, content_type |-> "image/png",
   meta |-> [is_chunk |-> FALSE, parent_document |-> <<>>]]

\* add_document for each document of the list, in order
RECURSIVE AddAll(_, _)
AddAll(st, docs) ==
  IF docs = <<>> THEN st
  ELSE AddAll([documents |-> AddDocumentTo(st, Head(docs).doc_id, Head(docs)).documents,
               chunks |-> AddDocumentTo(st, Head(docs).doc_id, Head(docs)).chunks,
               doc_to_chunks |-> AddDocumentTo(st, Head(docs).doc_id, Head(docs)).doc_to_chunks,
               keys |-> KeysAfter(st.keys, st.documents, Head(docs).doc_id)],
              Tail(docs))

\* What the requests before this one indexed.
IndexedBefore ==
  {<<>>,
   <<PAGE_DOC, PAGE_CHUNK_DOC, PDF_DOC, UPLOADED_DOC>>,
   <<PDF_DOC, UPLOADED_DOC>>}

\* The ids an answer may name in its [[IMAGE:...]] and [[FILE:...]] references.
Markers ==
  {PageDocId(PAGE_URL), ChunkDocId(PAGE_URL, 1), ChunkDocId(PAGE_URL, 9),
   PageDocId("missing"), INLINE_IMAGE_1.source, UPLOADED_DOC_ID,
   UPLOADED_DOC_ID \o <<"#", 1>>,
   EMBEDDED_IMAGE.source, <<"", "page1_img1", "#", 2>>, <<"", "nothing">>}

Fragment(kind, marker) == [kind |-> kind, marker |-> marker]

\* The fragments of an answer: text, whitespace, an image or a file reference.
Fragments ==
  {Fragment("text", <<>>), Fragment("space", <<>>)}
  \cup {Fragment(k, m) : k \in {"image", "file"}, m \in Markers}

\* re.findall over the answer: the markers of the references of one kind
MarkersOf(answer, kind) ==
  LET refs == SelectSeq(answer, LAMBDA f : f.kind = kind)
  IN [i \in 1..Len(refs) |-> refs[i].marker]

\* full_answer.strip() is empty
BlankAnswer(answer) == \A i \in 1..Len(answer) : answer[i].kind = "space"

InitStream ==
  /\ ChunkIdle
  /\ CrawlIdle
  /\ OtherIdle
  /\ reqPc = "index" /\ query = <<>>
  /\ relevant_chunks = <<>> /\ selected_chunks = <<>>
  /\ \E docs \in IndexedBefore :
       LET st == AddAll([documents |-> EmptyDict, chunks |-> <<>>,
                         doc_to_chunks |-> EmptyDict, keys |-> <<>>], docs)
       IN /\ documents = st.documents
          /\ document_keys = st.keys
          /\ chunks = st.chunks
          /\ doc_to_chunks = st.doc_to_chunks
  /\ streamPc = "generate"
  /\ full_answer = <<>>
  /\ events = <<>>
  /\ image_markers = <<>>
  /\ file_markers = <<>>
  /\ markerIdx = 0
  /\ processed_assets = {}
  /\ processed_markers = {}
  /\ resolved = <<>>

StreamFrame == UNCHANGED <<chunkVars, indexVars, requestVars, settingsVars,
                           crawlVars, askVars, otherVars>>

\* One round of "async for chunk in async_chat_stream(messages)".
Generate(chunk) ==
  /\ streamPc = "generate"
  /\ Len(full_answer) < MaxFragments
  /\ full_answer' = Append(full_answer, chunk)
  /\ events' = EmitText(events, chunk)
  /\ UNCHANGED <<streamPc, image_markers, file_markers, markerIdx,
                 processed_assets, processed_markers, resolved>>
  /\ StreamFrame

\* The text-generation service fails: the exception leaves the generator.
ChatRaises ==
  /\ streamPc = "generate"
  /\ streamPc' = "raised"
  /\ UNCHANGED <<full_answer, events, image_markers, file_markers, markerIdx,
                 processed_assets, processed_markers, resolved>>
  /\ StreamFrame

\* The async for loop ends; lines 254-264.  image_markers and file_markers
\* are bound only when the answer is not blank: the first marker loop then
\* raises UnboundLocalError.
EndGeneration ==
  /\ streamPc = "generate"
  /\ IF BlankAnswer(full_answer)
     THEN /\ streamPc' = "raised"
          /\ UNCHANGED <<image_markers, file_markers, markerIdx>>
     ELSE /\ streamPc' = "images"
          /\ image_markers' = MarkersOf(full_answer, "image")
          /\ file_markers' = MarkersOf(full_answer, "file")
          /\ markerIdx' = 1
  /\ UNCHANGED <<full_answer, events, processed_assets, processed_markers,
                 resolved>>
  /\ StreamFrame

\* One iteration of a marker loop: "for marker in image_markers" (kind
\* "image") or "for marker in file_markers" (kind "file").
ProcessMarker(kind) ==
  LET markers == IF kind = "image" THEN image_markers ELSE file_markers
      marker == markers[markerIdx]
  IN
  /\ streamPc = (IF kind = "image" THEN "images" ELSE "files")
  /\ markerIdx <= Len(markers)
  /\ markerIdx' = markerIdx + 1
  /\ IF AlreadyProcessed(marker, processed_markers)
     THEN UNCHANGED <<events, processed_assets, processed_markers, resolved>>
     ELSE /\ processed_markers' = processed_markers \cup {marker}
          /\ resolved' = Append(resolved, marker)
          /\ events' = AfterMarker(kind, marker).events
          /\ processed_assets' = AfterMarker(kind, marker).processed_assets
  /\ UNCHANGED <<streamPc, full_answer, image_markers, file_markers>>
  /\ StreamFrame

\* A marker loop ends: the file loop follows the image loop, the end of the
\* generator follows the file loop.
EndMarkerLoop ==
  /\ \/ streamPc = "images" /\ markerIdx > Len(image_markers)
        /\ streamPc' = "files" /\ markerIdx' = 1
     \/ streamPc = "files" /\ markerIdx > Len(file_markers)
        /\ streamPc' = "done" /\ markerIdx' = markerIdx
  /\ UNCHANGED <<full_answer, events, image_markers, file_markers,
                 processed_assets, processed_markers, resolved>>
  /\ StreamFrame

NextStream ==
  \/ \E chunk \in Fragments : Generate(chunk)
  \/ ChatRaises
  \/ EndGeneration
  \/ \E kind \in {"image", "file"} : ProcessMarker(kind)
  \/ EndMarkerLoop

SpecStream == InitStream /\ [][NextStream]_vars


\* ------------------------------------------------------------------------
\* ask_stream handlers on one event loop
\* ------------------------------------------------------------------------

\* ask_stream is a coroutine and global_index is shared by the coroutines of
\* the process; add_document, retrieve_relevant_context and
\* get_document_assets hold no await, so a handler runs from one await (or
\* yield of its generator) to the next without another handler running.
\* The awaits of ask_stream are crawl (line 95) and file.read (line 110); the
\* generator is suspended at every yield.

\* The requests received are at most MaxRequests.
MaxRequests == 2

\* f"uploaded://{uuid.uuid4().hex}-{fname}": n stands for the uuid and name
UploadedDocId(n) == <<"uploaded://", n>>

UploadedDoc(n) == [UPLOADED_DOC EXCEPT !.doc_id = UploadedDocId(n)]

\* crawl_result.pages of a crawl: nothing (crawl raised or fetched nothing),
\* a page of two chunks, or the page with another text and a PDF.
CrawlResults ==
  {<<>>,
   <<PageDoc(PAGE_URL, "text/html", TWO_CHUNK_TEXT, <<>>)>>,
   <<PageDoc(PAGE_URL, "text/html", X(max_chunk_chars), <<>>), PDF_DOC>>}

StoreWithKeys == [documents |-> documents, chunks |-> chunks,
                  doc_to_chunks |-> doc_to_chunks, keys |-> document_keys]

\* retrieve_relevant_context(question) on a store, the service scoring every
\* chunk alike.
RetrieveOn(st) ==
  IF st.chunks = <<>> THEN <<>>
  ELSE SelectChunks(st.chunks,
                    RelevantChunks(ScoreChunksWithAi(st.chunks, X(1),
                                     [i \in 1..Len(st.chunks) |-> 90])))

\* The selection loop writing relevance_score to the chunks of the store.
StoreAfterRetrieve_InPlace(st) ==
  [st EXCEPT !.chunks =
     [i \in 1..Len(st.chunks) |->
        IF \E k \in 1..Len(RetrieveOn(st)) :
             RetrieveOn(st)[k].chunk_id = st.chunks[i].chunk_id
        THEN WithScore(st.chunks[i], 90) ELSE st.chunks[i]]]

\* The store after retrieve_relevant_context: the loop sets relevance_score
\* on chunk.copy() (lines 228-229) and nothing else is assigned.
StoreAfterRetrieve(st) == st

\* What a read saw: the store it ran on and what it returned.
Seen(op, st, result) == [op |-> op, store |-> st, result |-> result]

\* Lines 155-156 (and 192 for an upload): the reads that end the part of
\* ask_stream before the response is returned.
ReadsOf(st, upload) ==
  IF upload = 0 THEN Seen("retrieve", st, RetrieveOn(st))
  ELSE Seen("retrieve", st,
            <<RetrieveOn(st),
              GetDocumentAssets(st.documents, st.keys, UploadedDocId(upload))>>)

SetStore(st) ==
  /\ documents' = st.documents
  /\ document_keys' = st.keys
  /\ chunks' = st.chunks
  /\ doc_to_chunks' = st.doc_to_chunks

HandlerFrame == UNCHANGED <<chunkVars, requestVars, settingsVars, crawlVars,
                            askVars, streamVars, scoreVars, ctrlVars,
                            downloadVars>>

\* A request arrives and runs to its first await, or to the end of
\* ask_stream when it names no area and carries no file.
ReceiveRequest(h, area, file) ==
  /\ hPc[h] = "idle"
  /\ hRequests < MaxRequests
  /\ hRequests' = hRequests + 1
  /\ hFile' = [hFile EXCEPT ![h] = IF file THEN hRequests + 1 ELSE 0]
  /\ hPc' = [hPc EXCEPT ![h] = IF area THEN "crawl"
                               ELSE IF file THEN "read" ELSE "stream"]
  /\ hSeen' = IF area \/ file THEN hSeen
              ELSE [hSeen EXCEPT ![h] = ReadsOf(StoreWithKeys, 0)]
  /\ IF area \/ file THEN UNCHANGED indexVars
     ELSE SetStore(StoreAfterRetrieve(StoreWithKeys))
  /\ HandlerFrame

\* await crawl returns: lines 98-99 index its documents, then the handler
\* goes on to await file.read or to the end of ask_stream.
CrawlReturns(h, docs) ==
  /\ hPc[h] = "crawl"
  /\ LET st == AddAll(StoreWithKeys, docs) IN
     /\ SetStore(IF hFile[h] # 0 THEN st ELSE StoreAfterRetrieve(st))
     /\ hSeen' = IF hFile[h] # 0 THEN hSeen
                 ELSE [hSeen EXCEPT ![h] = ReadsOf(st, 0)]
  /\ hPc' = [hPc EXCEPT ![h] = IF hFile[h] # 0 THEN "read" ELSE "stream"]
  /\ UNCHANGED <<hFile, hRequests>>
  /\ HandlerFrame

\* await file.read returns: lines 111-152 index the upload, then the handler
\* runs to the end of ask_stream.
FileRead(h) ==
  /\ hPc[h] = "read"
  /\ LET st == AddAll(StoreWithKeys, <<UploadedDoc(hFile[h])>>) IN
     /\ SetStore(StoreAfterRetrieve(st))
     /\ hSeen' = [hSeen EXCEPT ![h] = ReadsOf(st, hFile[h])]
  /\ hPc' = [hPc EXCEPT ![h] = "stream"]
  /\ UNCHANGED <<hFile, hRequests>>
  /\ HandlerFrame

\* The generator of the handler resolves a marker between two yields.
StreamResolves(h, marker) ==
  /\ hPc[h] = "stream"
  /\ hSeen' = [hSeen EXCEPT ![h] =
                 Seen("assets", StoreWithKeys,
                      GetDocumentAssets(documents, document_keys, marker))]
  /\ UNCHANGED <<hPc, hFile, hRequests, indexVars>>
  /\ HandlerFrame

\* The generator ends.
StreamEnds(h) ==
  /\ hPc[h] = "stream"
  /\ hPc' = [hPc EXCEPT ![h] = "idle"]
  /\ UNCHANGED <<hFile, hSeen, hRequests, indexVars>>
  /\ HandlerFrame

InitHandlers ==
  /\ DownloadsIdle
  /\ ChunkIdle
  /\ IndexIdle
  /\ CrawlIdle
  /\ StreamIdle
  /\ HandlersIdle
  /\ ScoreIdle
  /\ CtrlIdle

NextHandlers ==
  \/ \E h \in Handlers, area \in BOOLEAN, file \in BOOLEAN :
       ReceiveRequest(h, area, file)
  \/ \E h \in Handlers, docs \in CrawlResults : CrawlReturns(h, docs)
  \/ \E h \in Handlers : FileRead(h)
  \/ \E h \in Handlers,
        marker \in {PageDocId(PAGE_URL), PageDocId(PDF_URL), UploadedDocId(1)} :
       StreamResolves(h, marker)
  \/ \E h \in Handlers : StreamEnds(h)

SpecHandlers == InitHandlers /\ [][NextHandlers]_vars


\* ------------------------------------------------------------------------
\* One ranking, scoring call by scoring call
\* ------------------------------------------------------------------------

\* The corpus holds at most MaxCorpusDocs documents, of two chunks each.
MaxCorpusDocs == 3

CorpusDocs(n) ==
  [i \in 1..n |-> PageDoc(i, "text/html", TWO_CHUNK_TEXT, <<>>)]

\* What chat_stream does when _get_ai_score calls it: it raises, or yields
\* the pieces of "no", of "1", of "0.26" cut after the point, or of
\* "x1.5 0.9".
RAISES == [raises |-> TRUE, pieces |-> <<>>]

Said(pieces) == [raises |-> FALSE, pieces |-> pieces]

Responses ==
  {RAISES,
   Said(<<<<"n", "o">>>>),
   Said(<<<<"1">>>>),
   Said(<<<<"0", ".">>, <<"2", "6">>>>),
   Said(<<<<"x", "1", ".", "5">>, <<" ", "0", ".", "9">>>>)}

ScoreFrame == UNCHANGED <<chunkVars, indexVars, settingsVars, crawlVars,
                          askVars, streamVars, handlerVars, ctrlVars,
                          downloadVars>>

\* retrieve_relevant_context(q) is called and reaches the scoring loop, or
\* returns at once: lines 200-201 for a store without chunks, lines 183-184
\* and 206-237 for an empty or whitespace-only query.
RetrieveCalled(q) ==
  /\ reqPc = "index"
  /\ scorePc = "idle"
  /\ query' = q
  /\ IF chunks = <<>> \/ Strip(q) = <<>>
     THEN /\ scorePc' = "ranked"
          /\ reqPc' = "answered"
          /\ relevant_chunks' = <<>>
          /\ selected_chunks' = <<>>
     ELSE /\ scorePc' = "scoring"
          /\ UNCHANGED <<reqPc, relevant_chunks, selected_chunks>>
  /\ UNCHANGED <<scored, response>>
  /\ ScoreFrame

\* One round of the loop of score_chunks_with_ai, lines 189-191.
ScoreChunk(resp) ==
  /\ scorePc = "scoring"
  /\ Len(scored) < Len(chunks)
  /\ scored' = Append(scored, <<Len(scored), GetAiScore(resp)>>)
  /\ response' = resp
  /\ UNCHANGED <<scorePc, requestVars>>
  /\ ScoreFrame

\* The loop has ended: the sort of line 195, then lines 206-237.
Rank ==
  /\ scorePc = "scoring"
  /\ Len(scored) = Len(chunks)
  /\ scored' = SortDesc(scored)
  /\ relevant_chunks' = RelevantChunks(SortDesc(scored))
  /\ selected_chunks' = SelectChunks(chunks, RelevantChunks(SortDesc(scored)))
  /\ reqPc' = "answered"
  /\ scorePc' = "ranked"
  /\ UNCHANGED <<query, response>>
  /\ ScoreFrame

InitScore ==
  /\ DownloadsIdle
  /\ ChunkIdle
  /\ CrawlIdle
  /\ StreamIdle
  /\ HandlersIdle
  /\ ScoreIdle
  /\ CtrlIdle
  /\ reqPc = "index" /\ query = <<>>
  /\ relevant_chunks = <<>> /\ selected_chunks = <<>>
  /\ \E n \in 0..MaxCorpusDocs :
       LET st == AddAll([documents |-> EmptyDict, chunks |-> <<>>,
                         doc_to_chunks |-> EmptyDict, keys |-> <<>>],
                        CorpusDocs(n))
       IN /\ documents = st.documents
          /\ document_keys = st.keys
          /\ chunks = st.chunks
          /\ doc_to_chunks = st.doc_to_chunks

NextScore ==
  \/ \E q \in Queries : RetrieveCalled(q)
  \/ \E resp \in Responses : ScoreChunk(resp)
  \/ Rank

SpecScore == InitScore /\ [][NextScore]_vars


\* ------------------------------------------------------------------------
\* ConcurrencyController
\* ------------------------------------------------------------------------

\* acquire() is called at most MaxEntries times, and the semaphore is
\* released at most MaxEntries times more than it is acquired.
MaxEntries == 4

\* The limits a controller is built with.
Limits == {1, 2}

CtrlFrame == UNCHANGED <<chunkVars, indexVars, requestVars, settingsVars,
                         crawlVars, askVars, streamVars, handlerVars, scoreVars,
                         downloadVars>>

\* release(): line 48
AfterRelease(active) == IF active - 1 < 0 THEN 0 ELSE active - 1

\* The semaphore of line 15 is an asyncio.Semaphore (CPython 3.11): a
\* value and a queue of futures, one for each task suspended in acquire().
\* A state of it is [value, waiters, woken].

\* Semaphore.locked(): the value is zero or a future is queued
Locked(sem) == sem.value = 0 \/ sem.waiters # <<>>

\* The waiters whose future has no result yet, oldest first.
Pending(sem) == SelectSeq(sem.waiters, LAMBDA t : t \notin sem.woken)

WakeUpNext_Nobody(sem) == sem

\* Semaphore._wake_up_next(): the oldest future without a result is given
\* one, and the value goes to its task.
WakeUpNext(sem) ==
  IF Pending(sem) = <<>> THEN sem
  ELSE [sem EXCEPT !.value = sem.value - 1,
                   !.woken = sem.woken \cup {Head(Pending(sem))}]

\* Semaphore.release()
SemRelease(sem) == WakeUpNext([sem EXCEPT !.value = sem.value + 1])

\* The future of task t leaves the queue ("self._waiters.remove(fut)").
Unqueue(sem, t) ==
  [sem EXCEPT !.waiters = SelectSeq(sem.waiters, LAMBDA w : w # t),
              !.woken = sem.woken \ {t}]

\* Semaphore.acquire() resumes in the task of a future with a result.
SemResume(sem, t) ==
  IF Unqueue(sem, t).value > 0 THEN WakeUpNext(Unqueue(sem, t))
  ELSE Unqueue(sem, t)

\* Semaphore.acquire() is left by CancelledError: a future that had its
\* result gives the value back, and the next waiter is woken.
SemCancel(sem, t) ==
  IF t \in sem.woken
  THEN WakeUpNext([Unqueue(sem, t) EXCEPT !.value = sem.value + 1])
  ELSE Unqueue(sem, t)

Sem == [value |-> semValue, waiters |-> waiters, woken |-> woken]

SetSem(sem) ==
  /\ semValue' = sem.value
  /\ waiters' = sem.waiters
  /\ woken' = sem.woken

\* acquire() up to the end of its first step: lines 26-34, and lines 36-37
\* when the semaphore is not locked and its acquire() returns at once.
CallAcquire(t) ==
  /\ taskPc[t] = "idle"
  /\ total_requests < MaxEntries
  /\ total_requests' = total_requests + 1
  /\ IF Locked(Sem)
     THEN /\ queued_requests' = queued_requests + 1
          /\ SetSem([Sem EXCEPT !.waiters = Append(waiters, t)])
          /\ taskPc' = [taskPc EXCEPT ![t] = "waiting"]
          /\ UNCHANGED active_requests
     ELSE /\ SetSem([Sem EXCEPT !.value = semValue - 1])
          /\ active_requests' = active_requests + 1
          /\ queued_requests' = (queued_requests + 1) - 1
          /\ taskPc' = [taskPc EXCEPT ![t] = "holding"]
  /\ UNCHANGED max_concurrent
  /\ CtrlFrame

\* await self.semaphore.acquire() returns in a task whose future has its
\* result, and acquire() ends: lines 34-37.
SlotGranted(t) ==
  /\ taskPc[t] = "waiting"
  /\ t \in woken
  /\ SetSem(SemResume(Sem, t))
  /\ active_requests' = active_requests + 1
  /\ queued_requests' = queued_requests - 1
  /\ taskPc' = [taskPc EXCEPT ![t] = "holding"]
  /\ UNCHANGED <<max_concurrent, total_requests>>
  /\ CtrlFrame

\* The task is cancelled while suspended at line 34: CancelledError leaves
\* acquire(), which has no handler, so lines 36-37 do not run.
CancelWaiting(t) ==
  /\ taskPc[t] = "waiting"
  /\ SetSem(SemCancel(Sem, t))
  /\ taskPc' = [taskPc EXCEPT ![t] = "cancelled"]
  /\ UNCHANGED <<max_concurrent, active_requests, queued_requests,
                 total_requests>>
  /\ CtrlFrame

\* release() by a task that acquired: lines 47-48.
CallRelease(t) ==
  /\ taskPc[t] = "holding"
  /\ SetSem(SemRelease(Sem))
  /\ active_requests' = AfterRelease(active_requests)
  /\ taskPc' = [taskPc EXCEPT ![t] = "idle"]
  /\ UNCHANGED <<max_concurrent, queued_requests, total_requests>>
  /\ CtrlFrame

\* "async with controller": __aenter__ returns self, lines 58-59.
AEnter(t) ==
  /\ taskPc[t] = "idle"
  /\ taskPc' = [taskPc EXCEPT ![t] = "inside"]
  /\ UNCHANGED <<max_concurrent, semValue, waiters, woken, active_requests,
                 queued_requests, total_requests>>
  /\ CtrlFrame

\* The block of "async with controller" ends: __aexit__ calls release(),
\* lines 61-62.
AExit(t) ==
  /\ taskPc[t] = "inside"
  /\ semValue < max_concurrent + MaxEntries
  /\ SetSem(SemRelease(Sem))
  /\ active_requests' = AfterRelease(active_requests)
  /\ taskPc' = [taskPc EXCEPT ![t] = "idle"]
  /\ UNCHANGED <<max_concurrent, queued_requests, total_requests>>
  /\ CtrlFrame

InitCtrl ==
  /\ DownloadsIdle
  /\ ChunkIdle
  /\ IndexIdle
  /\ CrawlIdle
  /\ StreamIdle
  /\ HandlersIdle
  /\ ScoreIdle
  /\ max_concurrent \in Limits
  /\ semValue = max_concurrent
  /\ waiters = <<>>
  /\ woken = {}
  /\ active_requests = 0
  /\ queued_requests = 0
  /\ total_requests = 0
  /\ taskPc = [t \in Tasks |-> "idle"]

NextCtrl ==
  \/ \E t \in Tasks : CallAcquire(t)
  \/ \E t \in Tasks : SlotGranted(t)
  \/ \E t \in Tasks : CancelWaiting(t)
  \/ \E t \in Tasks : CallRelease(t)
  \/ \E t \in Tasks : AEnter(t)
  \/ \E t \in Tasks : AExit(t)

SpecCtrl == InitCtrl /\ [][NextCtrl]_vars

\* The event loop runs every task that is ready (a task whose future has
\* its result resumes), and a task that holds a slot calls release().
SpecCtrlFair ==
  /\ SpecCtrl
  /\ \A t \in Tasks : WF_vars(SlotGranted(t)) /\ WF_vars(CallRelease(t))


\* ========================================================================
\* Claims
\* ========================================================================

\* ---- crawl (SpecCrawl) ----

\* C1 as stated: the document map, chunk-documents included, never holds
\* more than MAX_PAGES entries.
C1_Original == Cardinality(DOMAIN pages) <= MAX_PAGES

\* C2: no fetch is issued at a depth greater than MAX_DEPTH and every
\* document comes from a fetch at depth <= MAX_DEPTH; the seed is fetched at
\* depth 0, and every other fetch or frontier entry is one deeper than a
\* page that was fetched and recorded.
C2_DepthCap ==
  /\ \A i \in 1..Len(fetchLog) :
       /\ fetchLog[i].depth <= MAX_DEPTH
       /\ IF i = 1 THEN fetchLog[i].url = root_url /\ fetchLog[i].depth = 0
          ELSE \E j \in 1..(i - 1) :
                 fetchLog[j].stored /\ fetchLog[j].depth + 1 = fetchLog[i].depth
  /\ \A id \in DOMAIN pages :
       \E i \in 1..Len(fetchLog) :
         /\ fetchLog[i].url = pages[id].source_url
         /\ fetchLog[i].stored
         /\ fetchLog[i].depth <= MAX_DEPTH
  /\ \A i \in 1..Len(queue) :
       \/ queue[i] = <<root_url, 0>>
       \/ \E j \in 1..Len(fetchLog) :
            fetchLog[j].stored /\ fetchLog[j].depth + 1 = queue[i][2]

\* A page was fetched at depth MAX_DEPTH and the entry about to be popped
\* lies deeper.
C2_Witness ==
  /\ crawlPc = "loop"
  /\ LoopCondition
  /\ Head(queue)[2] > MAX_DEPTH
  /\ Head(queue)[1] \notin visited
  /\ \E i \in 1..Len(fetchLog) : fetchLog[i].depth = MAX_DEPTH /\ MAX_DEPTH > 0

\* The last two labels of the root's host.
RootDomain ==
  LET h == root_url.netloc IN
  IF Len(h) >= 2 THEN <<h[Len(h) - 1], h[Len(h)]>> ELSE h

\* host equals the root's registrable domain or ends with "." + that domain
InRootScope(host) ==
  \/ host = RootDomain
  \/ /\ Len(host) > Len(RootDomain)
     /\ \A k \in 1..Len(RootDomain) :
          host[Len(host) - Len(RootDomain) + k] = RootDomain[k]

SUB_URL == Url("https", SUB_HOST, "/", "")

C3_InScope ==
  /\ \A i \in 1..Len(queue) :
       queue[i] = <<root_url, 0>> \/ InRootScope(queue[i][1].netloc)
  /\ \A i \in 1..Len(fetchLog) :
       fetchLog[i].url = root_url \/ InRootScope(fetchLog[i].url.netloc)
  /\ root_url = DOCS_ROOT =>
       /\ \A i \in 1..Len(queue) : queue[i][1].netloc # EVIL_HOST
       /\ \A i \in 1..Len(fetchLog) : fetchLog[i].url.netloc # EVIL_HOST

C3_SubEnqueued ==
  (/\ root_url = DOCS_ROOT
   /\ Len(fetchLog') = Len(fetchLog) + 1
   /\ SUB_URL \in lastLinks'
   /\ SUB_URL \notin visited'
   /\ Cardinality(DOMAIN pages') + Len(queue') < MAX_PAGES)
  => \E i \in 1..Len(queue') : queue'[i] = <<SUB_URL, Head(queue)[2] + 1>>

\* C3: every frontier entry other than the seed, and every page fetched,
\* has a host in the scope of the root; rooted at docs.example.com no link to
\* evil.example.org is enqueued or fetched, and a link to sub.docs.example.com
\* found unvisited while budget remains is enqueued.
C3_DomainScope == []C3_InScope /\ [][C3_SubEnqueued]_vars

C3_Witness ==
  /\ root_url = DOCS_ROOT
  /\ Url("https", EVIL_HOST, "/", "") \in lastLinks
  /\ SUB_URL \in lastLinks
  /\ queue = <<<<SUB_URL, 1>>>>

C4_NoAbort ==
  /\ crawlPc # "raised"
  /\ crawlPc = "done" => (queue = <<>> \/ Cardinality(DOMAIN pages) >= MAX_PAGES)
  /\ (crawlPc = "done" /\ fetchLog # <<>> /\ ~fetchLog[1].stored) => pages = EmptyDict
  /\ askPc = "retrieve" => (crawlPc = "done" /\ askIndexed = DOMAIN pages)

C4_KeepsGoing ==
  /\ \A id \in DOMAIN pages : id \in DOMAIN pages' /\ pages'[id] = pages[id]
  /\ (Len(fetchLog') = Len(fetchLog) + 1 /\ fetchLog'[Len(fetchLog')].failed) =>
       /\ crawlPc' = "loop"
       /\ Len(queue') >= Len(queue) - 1
       /\ \A i \in 1..(Len(queue) - 1) : queue'[i] = queue[i + 1]

\* C4: a failure while one URL is processed does not end the crawl: crawl
\* never raises, the documents recorded so far stay, the rest of the frontier
\* is still processed (crawl returns only with the frontier empty or the page
\* budget used), and when the root itself fails crawl returns an empty map;
\* ask_stream then goes on to retrieval.
C4_FailureIsolated == []C4_NoAbort /\ [][C4_KeepsGoing]_vars

\* A URL failed after a document had been recorded; a later URL was still
\* fetched and recorded, and ask_stream went on to retrieval.
C4_Witness ==
  /\ askPc = "retrieve"
  /\ Len(fetchLog) = 3
  /\ fetchLog[1].stored
  /\ fetchLog[2].failed /\ ~fetchLog[2].stored
  /\ fetchLog[3].stored
  /\ PageDocId(fetchLog[1].url) \in DOMAIN pages

\* ---- chunker (SpecChunk) ----

ChunkDone == chPc = "done"

\* No paragraph of the text is longer than max_chunk_chars - 500.
SmallParagraphs(text) ==
  \A i \in 1..Len(Paragraphs(text)) :
    StrLen(Paragraphs(text)[i]) <= max_chunk_chars - MIN_CHUNK_CHARS

\* C6 as stated: every text longer than max_chunk_chars yields at least two
\* chunks, each with char_length <= max_chunk_chars + overlap_chars.
C6_Original ==
  (ChunkDone /\ StrLen(chText) > max_chunk_chars) =>
    /\ Len(chOut) >= 2
    /\ \A i \in 1..Len(chOut) :
         chOut[i].char_length <= max_chunk_chars + overlap_chars

\* C6 amended: when no paragraph of the text is longer than
\* max_chunk_chars - 500, every chunk has char_length <= max_chunk_chars +
\* overlap_chars, and if the paragraphs joined by single newlines are longer
\* than max_chunk_chars there are at least two chunks.
C6_ChunkBound ==
  (ChunkDone /\ SmallParagraphs(chText)) =>
    /\ \A i \in 1..Len(chOut) :
         chOut[i].char_length <= max_chunk_chars + overlap_chars
    /\ StrLen(Join(Paragraphs(chText), NLs(1))) > max_chunk_chars
         => Len(chOut) >= 2

C6_Witness ==
  /\ ChunkDone
  /\ SmallParagraphs(chText)
  /\ StrLen(Join(Paragraphs(chText), NLs(1))) > max_chunk_chars
  /\ Len(chOut) = 3
  /\ chOut[2].char_length > max_chunk_chars - MIN_CHUNK_CHARS

\* C8 as stated: a text of at most max_chunk_chars characters yields exactly
\* one chunk, index 0, whose text is the whole text trimmed (zero chunks for
\* an empty or whitespace-only text).
C8_Original ==
  (ChunkDone /\ StrLen(chText) <= max_chunk_chars) =>
    IF Strip(chText) = <<>> THEN chOut = <<>>
    ELSE /\ Len(chOut) = 1
         /\ chOut[1].chunk_index = 0
         /\ chOut[1].text = Strip(chText)

\* ---- the store and retrieval (SpecIndex) ----

\* The chunks of the list whose parent is doc_id, in list order.
ChunksWithDoc(chs, doc_id) == SelectSeq(chs, LAMBDA c : c.doc_id = doc_id)

\* The texts of the chunks doc_to_chunks lists for doc_id, by index.
ListedTexts(chs, d2c, doc_id) ==
  [i \in 1..Len(ChunksOf(d2c, doc_id)) |-> chs[ChunksOf(d2c, doc_id)[i] + 1].text]

\* C5 as stated: add_document(d, c) on a store whose Document d already is c
\* leaves d with the same chunk set: the same number of chunks for d in
\* chunks and in doc_to_chunks[d], and the same text per index.
C5_Original ==
  [][\A d \in DocIds : \A c \in ContentsOf(d) :
       (AddDocument(d, c) /\ d \in DOMAIN documents /\ documents[d] = c) =>
         /\ Len(ChunksWithDoc(chunks', d)) = Len(ChunksWithDoc(chunks, d))
         /\ ListedTexts(chunks', doc_to_chunks', d)
              = ListedTexts(chunks, doc_to_chunks, d)]_vars

\* C7 as stated: the chunks of the store whose parent is d carry the indices
\* 0..n-1, once each and in order, with chunk_id = d + "#chunk-" + index, and
\* no two chunks of the store share a chunk_id.
C7_Original ==
  /\ \A d \in DocIds :
       \A i \in 1..Len(ChunksWithDoc(chunks, d)) :
         /\ ChunksWithDoc(chunks, d)[i].chunk_index = i - 1
         /\ ChunksWithDoc(chunks, d)[i].chunk_id = <<d, "#chunk-", i - 1>>
  /\ \A i, j \in 1..Len(chunks) :
       i # j => chunks[i].chunk_id # chunks[j].chunk_id

Answered == reqPc = "answered"

\* C9 as stated: whatever the query, retrieval over a store that holds a
\* chunk returns at least one chunk.
C9_Original ==
  (Answered /\ chunks # <<>>) => selected_chunks # <<>>

\* C9 amended: for every query that is not empty or whitespace-only,
\* retrieval over a store that holds a chunk returns at least one chunk.
C9_NonBlankQuery ==
  (Answered /\ chunks # <<>> /\ Strip(query) # <<>>) => selected_chunks # <<>>

\* No chunk passed the threshold and the best-ranked one alone is over the
\* budget; it is returned.
C9_Witness ==
  /\ Answered
  /\ Strip(query) # <<>>
  /\ Len(relevant_chunks) >= 2
  /\ \A i \in 1..Len(relevant_chunks) : ~IsRelevant(relevant_chunks[i])
  /\ ChunkTokens(chunks[relevant_chunks[1][1] + 1]) > MaxTokens
  /\ Len(selected_chunks) = 1

\* The estimated cost of the first n selected chunks.
RECURSIVE TotalTokens(_, _)
TotalTokens(sel, n) ==
  IF n = 0 THEN 0 ELSE ChunkTokens(sel[n]) + TotalTokens(sel, n - 1)

\* No document was added twice: the chunk ids of the store are distinct.
DistinctChunkIds ==
  \A i, j \in 1..Len(chunks) : i # j => chunks[i].chunk_id # chunks[j].chunk_id

\* C10 as stated (on a store whose chunk ids are distinct): the result is a
\* prefix of the ranked candidates, in descending score order, the first
\* candidate always in it; the walk ends before a candidate only when 3
\* chunks are selected or when the running total plus its cost would exceed
\* max_context_tokens.
C10_Original ==
  (Answered /\ DistinctChunkIds) =>
    LET n == Len(selected_chunks) IN
    /\ n <= Len(relevant_chunks)
    /\ relevant_chunks # <<>> => n >= 1
    /\ \A i \in 1..n :
         /\ selected_chunks[i].chunk_id = chunks[relevant_chunks[i][1] + 1].chunk_id
         /\ selected_chunks[i].relevance_score = relevant_chunks[i][2]
    /\ \A i \in 1..(Len(relevant_chunks) - 1) :
         relevant_chunks[i][2] >= relevant_chunks[i + 1][2]
    /\ n < Len(relevant_chunks) =>
         \/ n >= MAX_SELECTED
         \/ TotalTokens(selected_chunks, n)
              + ChunkTokens(chunks[relevant_chunks[n + 1][1] + 1])
              > max_context_tokens
    /\ n > 1 => TotalTokens(selected_chunks, n) <= max_context_tokens

\* dict.get on a returned chunk: chunk.get("images", []), chunk.get("files", [])
ChunkImages(chunk) == IF "images" \in DOMAIN chunk THEN chunk.images ELSE <<>>

ChunkFiles(chunk) == IF "files" \in DOMAIN chunk THEN chunk.files ELSE <<>>

\* The chunk at position i is the first of its parent in the result list.
FirstOfParent(sel, i) == \A j \in 1..(i - 1) : sel[j].doc_id # sel[i].doc_id

\* C11 as stated: in the list retrieval returns, the first selected chunk of
\* a parent carries the parent's images and files, and every later chunk of
\* that parent carries empty images and files lists.
C11_Original ==
  Answered =>
    \A i \in 1..Len(selected_chunks) :
      LET chunk == selected_chunks[i] IN
      IF FirstOfParent(selected_chunks, i)
      THEN /\ ChunkImages(chunk) = DocImages(documents[chunk.doc_id])
           /\ ChunkFiles(chunk) = DocFiles(documents[chunk.doc_id])
      ELSE /\ ChunkImages(chunk) = <<>>
           /\ ChunkFiles(chunk) = <<>>

\* ---- asset resolution and the answer stream (SpecStream) ----

Resolve(marker) == GetDocumentAssets(documents, document_keys, marker)

\* The positions of the image and file events of the stream.
AssetEvents == {i \in 1..Len(events) : events[i].type # "text"}

\* C12 as stated: for every doc_id of the store whose Document has images
\* or files, get_document_assets(doc_id) returns exactly those images and
\* files, for a docs:// id and for an uploaded:// id alike.
C12_Original ==
  \A n \in 1..Len(resolved) :
    LET d == resolved[n] IN
    (d \in DOMAIN documents
       /\ (DocImages(documents[d]) # <<>> \/ DocFiles(documents[d]) # <<>>))
      => Resolve(d) = AssetsOf(documents[d])

\* C13 as stated: get_document_assets of a stored chunk-document returns the
\* images and files of its parent, and of a marker that is not a stored id
\* and contains '#' those of the Document whose id is the marker before the
\* '#', when that Document exists.
C13_Original ==
  \A n \in 1..Len(resolved) :
    LET m == resolved[n] IN
    /\ (m \in DOMAIN documents /\ IsChunkDoc(documents[m])
           /\ DocMeta(documents[m]).parent_document \in DOMAIN documents)
          => Resolve(m) = AssetsOf(documents[DocMeta(documents[m]).parent_document])
    /\ (m \notin DOMAIN documents /\ HasHash(m)
           /\ BeforeHash(m) \in DOMAIN documents)
          => Resolve(m) = AssetsOf(documents[BeforeHash(m)])

\* The sources of the images the documents of the store own.
ImageSources ==
  UNION {{DocImages(documents[d])[i].source :
            i \in 1..Len(DocImages(documents[d]))} : d \in DOMAIN documents}

FileSources ==
  UNION {{DocFiles(documents[d])[i].source :
            i \in 1..Len(DocFiles(documents[d]))} : d \in DOMAIN documents}

\* Some document of the store owns the image.
OwnedImage(img) ==
  \E d \in DOMAIN documents :
    \E i \in 1..Len(DocImages(documents[d])) : DocImages(documents[d])[i] = img

\* C14: for a marker that is not a docs:// id, get_document_assets returns
\* exactly one image, owned by a document and with source = marker, and no
\* files when some document owns an image with that source; it returns
\* empty lists when none does.
C14_ImageSource ==
  \A m \in Markers \cup ImageSources :
    ~StartsWithDocs(m) =>
      IF m \in ImageSources
      THEN /\ Len(Resolve(m).images) = 1
           /\ Resolve(m).images[1].source = m
           /\ OwnedImage(Resolve(m).images[1])
           /\ Resolve(m).files = <<>>
      ELSE Resolve(m) = EmptyAssets

\* The stream resolved the source "inline", which three images of one
\* document share, and a source no image has: one image was found for the
\* first and one image event sent, none for the second.
C14_Witness ==
  /\ streamPc = "done"
  /\ PageDocId(PAGE_URL) \in DOMAIN documents
  /\ resolved = <<INLINE_IMAGE_1.source, <<"", "nothing">>>>
  /\ Len(WithSource(DocImages(documents[PageDocId(PAGE_URL)]), resolved[1])) = 3
  /\ Resolve(resolved[1]).images = <<INLINE_IMAGE_1>>
  /\ Cardinality(AssetEvents) = 1
  /\ \E i \in AssetEvents :
       events[i].type = "image" /\ events[i].doc_id = INLINE_IMAGE_1.source

\* The marker matches nothing: neither it nor its part before '#' is the id
\* of a document or the source of an image or file of the store.
Miss(m) ==
  /\ m \notin DOMAIN documents
  /\ BeforeHash(m) \notin DOMAIN documents
  /\ m \notin ImageSources \cup FileSources
  /\ BeforeHash(m) \notin ImageSources \cup FileSources

\* C15: for every marker that matches nothing, get_document_assets returns
\* {images: [], files: []}; the stream does not fail in the marker loops on
\* taking such a marker up and holds no image or file event for it.
C15_ResolutionMiss ==
  \A m \in Markers :
    Miss(m) =>
      /\ Resolve(m) = EmptyAssets
      /\ \A i \in 1..Len(events) :
           events[i].type # "text" => events[i].doc_id # m
      /\ (\E i \in 1..Len(resolved) : resolved[i] = m)
           => streamPc \in {"images", "files", "done"}

\* Two misses were taken up, a docs:// id missing from a store that holds
\* documents and a bare id, and the stream ended without an asset event.
C15_Witness ==
  /\ streamPc = "done"
  /\ documents # EmptyDict
  /\ resolved = <<<<"", "nothing">>, PageDocId("missing")>>
  /\ Miss(resolved[1]) /\ Miss(resolved[2])
  /\ \A i \in 1..Len(events) : events[i].type = "text"

\* The event without the marker it was sent for.
Unmarked(e) == [e EXCEPT !.doc_id = <<>>]

\* C16 as stated: the same underlying asset is emitted at most once in the
\* stream: no two image or file events, whatever markers they were sent for,
\* carry the same asset (same type, mime, size, filename and url or bytes).
C16_Original ==
  \A i, j \in AssetEvents :
    i # j => Unmarked(events[i]) # Unmarked(events[j])

\* The assets a marker loop of the given kind goes through for the marker.
LoopAssets(kind, m) ==
  IF kind = "image"
  THEN ImageMarkerAssets(documents, document_keys, m).images
  ELSE Resolve(m).files

\* The dedup keys (source, content length, mime) of a list of assets.
DedupKeys(assets) ==
  {<<assets[i].source, StrLen(assets[i].content), assets[i].mime>> :
     i \in 1..Len(assets)}

\* C17: no marker is resolved twice by the loops, and the events sent for a
\* marker are no more than the distinct (source, content length, mime) keys
\* among the assets it resolves to, no two of them alike.
C17_OncePerMarker ==
  /\ \A i, j \in 1..Len(resolved) : i # j => resolved[i] # resolved[j]
  /\ \A m \in Markers : \A kind \in {"image", "file"} :
       LET sent == {i \in AssetEvents :
                      events[i].doc_id = m /\ events[i].type = kind}
       IN /\ Cardinality(sent) <= Cardinality(DedupKeys(LoopAssets(kind, m)))
          /\ \A i, j \in sent : i # j => events[i] # events[j]

\* The answer names one marker twice; two of its three images with content
\* share their key: the marker was resolved once and two image events were
\* sent.
C17_Witness ==
  /\ streamPc = "done"
  /\ image_markers = <<PageDocId(PAGE_URL), PageDocId(PAGE_URL)>>
  /\ resolved = <<PageDocId(PAGE_URL)>>
  /\ Cardinality(DedupKeys(SelectSeq(LoopAssets("image", PageDocId(PAGE_URL)),
                                     LAMBDA a : a.content # <<>>))) = 2
  /\ Len(SelectSeq(LoopAssets("image", PageDocId(PAGE_URL)),
                   LAMBDA a : a.content # <<>>)) = 3
  /\ Cardinality(AssetEvents) = 2

\* C18: the stream is the text events, one per generated fragment in
\* generation order, followed by the image and file events; no asset event
\* is sent while fragments are generated.
C18_TextThenAssets ==
  /\ Len(events) >= Len(full_answer)
  /\ \A i \in 1..Len(events) :
       IF i <= Len(full_answer)
       THEN events[i] = [type |-> "text", content |-> full_answer[i]]
       ELSE events[i].type \in {"image", "file"}
  /\ streamPc = "generate" => Len(events) = Len(full_answer)

C18_Witness ==
  /\ streamPc = "done"
  /\ Len(full_answer) = 2
  /\ full_answer[1] # full_answer[2]
  /\ Len(events) > 2
  /\ events[1].type = "text" /\ events[2].type = "text"
  /\ events[3].type = "image"

\* The assets of the store an event may have been built from.
EventAssets(e) ==
  LET assets == LoopAssets(e.type, e.doc_id) IN
  {assets[i] : i \in 1..Len(assets)}

\* C19: every image or file event carries exactly one of url and
\* content_b64, url (the asset's source) when the source starts with
\* http:// or https://, else content_b64, which decodes to the asset's
\* bytes and holds one group of four characters for every three bytes
\* begun; its size is the byte length of the asset's content.
C19_UrlOrInline ==
  \A i \in AssetEvents :
    LET e == events[i] IN
    /\ ("url" \in DOMAIN e) # ("content_b64" \in DOMAIN e)
    /\ \E asset \in EventAssets(e) :
         /\ e.size = StrLen(asset.content)
         /\ e.mime = asset.mime
         /\ IF IsHttpish(asset.source)
            THEN "url" \in DOMAIN e /\ e.url = asset.source
            ELSE /\ "content_b64" \in DOMAIN e
                 /\ B64Decode(e.content_b64) = asset.content
                 /\ StrLen(e.content_b64) = (e.size + 2) \div 3

\* One event of each form was sent.
C19_Witness ==
  /\ streamPc = "done"
  /\ \E i, j \in AssetEvents :
       /\ "url" \in DOMAIN events[i] /\ events[i].size = 4
       /\ "content_b64" \in DOMAIN events[j] /\ events[j].size = 5

\* A file marker the file loop has taken up and finished with.
FileLoopDone(m) ==
  /\ \E i \in 1..Len(file_markers) : file_markers[i] = m
  /\ \A i \in 1..Len(image_markers) : image_markers[i] # m
  /\ streamPc = "done"

C36_Original ==
  [][EndGeneration =>
       /\ streamPc' = "images"
       /\ BlankAnswer(full_answer) =>
            image_markers' = <<>> /\ file_markers' = <<>>]_vars

\* A marker the answer names in a [[FILE:...]] reference and that resolves
\* to a file the file loop would send: not empty and not over the ceiling.
HasSendableFile(m) ==
  /\ \E i \in 1..Len(file_markers) : file_markers[i] = m
  /\ \E k \in 1..Len(Resolve(m).files) :
       /\ Resolve(m).files[k].content # <<>>
       /\ ~TooLarge(Resolve(m).files[k].content)

\* C37 as stated: when the stream has ended, every marker of a [[FILE:...]]
\* reference that resolves to a non-empty file of at most 5,000,000 bytes
\* has a file event with its doc_id, also when the answer names the marker
\* in an [[IMAGE:...]] reference as well.
C37_Original ==
  streamPc = "done" =>
    \A m \in Markers :
      HasSendableFile(m) =>
        \E i \in AssetEvents :
          events[i].type = "file" /\ events[i].doc_id = m

\* ---- handlers on the shared store (SpecHandlers) ----

\* The documents handlers hand to add_document.
WholeDocuments ==
  UNION {{docs[i] : i \in 1..Len(docs)} : docs \in CrawlResults}
    \cup {UploadedDoc(n) : n \in 1..MaxRequests}

\* The store holds every document whole, with all the chunks of its text:
\* the positions recorded last for the document are those of the chunks the
\* chunker gives for its text, and every chunk is recorded for a document.
ConsistentStore(st) ==
  /\ \A d \in DOMAIN st.documents :
       LET new == SplitTextIntoChunks(TextOf(st.documents[d]), d)
           pos == ChunksOf(st.doc_to_chunks, d)
       IN /\ st.documents[d] \in WholeDocuments
          /\ st.documents[d].doc_id = d
          /\ Len(pos) >= Len(new)
          /\ \A i \in 1..Len(new) :
               /\ pos[Len(pos) - Len(new) + i] < Len(st.chunks)
               /\ st.chunks[pos[Len(pos) - Len(new) + i] + 1] = new[i]
  /\ \A i \in 1..Len(st.chunks) :
       /\ st.chunks[i].doc_id \in DOMAIN st.documents
       /\ \E k \in 1..Len(ChunksOf(st.doc_to_chunks, st.chunks[i].doc_id)) :
            ChunksOf(st.doc_to_chunks, st.chunks[i].doc_id)[k] = i - 1

\* C21: whatever the interleaving of the handlers, the store a read of
\* retrieve_relevant_context or get_document_assets runs on, and the store
\* between any two steps, holds no document without all its chunks and no
\* document that is partly one content and partly another.
C21_AtomicAdd ==
  /\ ConsistentStore(StoreWithKeys)
  /\ \A h \in Handlers :
       hSeen[h] # <<>> => ConsistentStore(hSeen[h].store)

\* One handler resolved a marker on a store that another handler, which is
\* still at work, added a document of two chunks to after the first had
\* retrieved.
C21_Witness ==
  /\ hPc = [h \in Handlers |-> "stream"]
  /\ hSeen["h1"].op = "assets"
  /\ hSeen["h2"].op = "retrieve"
  /\ Len(hSeen["h2"].store.chunks) = 2
  /\ hSeen["h1"].store = hSeen["h2"].store
  /\ hSeen["h1"].result = EmptyAssets

\* ---- delegated scoring (SpecScore) ----

\* The text the service returned holds a decimal number at i: n digits, a
\* point and m digits.
DecimalAt(s, i, n, m) ==
  /\ n >= 1 /\ m >= 1 /\ i + n + m <= Len(s)
  /\ \A k \in i..(i + n - 1) : IsDigit(s[k])
  /\ s[i + n] = "."
  /\ \A k \in (i + n + 1)..(i + n + m) : IsDigit(s[k])

HoldsDecimal(s) ==
  \E i \in 1..Len(s), n \in 1..Len(s), m \in 1..Len(s) : DecimalAt(s, i, n, m)

\* The values, in hundredths, an answer of the service may be scored with:
\* the decimal numbers of the texts "0.26" and "x1.5 0.9", brought into
\* [0, 1] (26 for 0.26, 100 for 1.5).
ScoreExpected(resp) ==
  IF resp.raises \/ ~HoldsDecimal(FullResponse(resp.pieces)) THEN 0
  ELSE IF FullResponse(resp.pieces)[1] = "0" THEN 26 ELSE 100

\* Every score given so far is in [0, 1]; the last one is 0.0 when the
\* service raised or its text holds no decimal number, else the first
\* decimal number of the text brought into [0, 1].
ScoresInRange ==
  /\ \A i \in 1..Len(scored) : scored[i][2] \in 0..100
  /\ (scorePc = "scoring" /\ scored # <<>>) =>
       scored[Len(scored)][2] = ScoreExpected(response)

\* Every chunk of the store has exactly one score.
OneScoreEach ==
  /\ Len(scored) = Len(chunks)
  /\ \A p \in 0..(Len(chunks) - 1) :
       Cardinality({i \in 1..Len(scored) : scored[i][1] = p}) = 1

\* C22 as stated: every score is in [0, 1], 0.0 on an exception or a text
\* without a number, and every ranking gives each chunk of the store
\* exactly one score.
C22_Original ==
  /\ ScoresInRange
  /\ scorePc = "ranked" => OneScoreEach

\* C22 amended: every score is in [0, 1], 0.0 on an exception or a text
\* without a decimal number; a ranking for a query that is not empty or
\* whitespace-only gives each chunk of the store exactly one score; for an
\* empty or whitespace-only query no chunk is scored.
C22_NonBlankQuery ==
  /\ ScoresInRange
  /\ scorePc = "ranked" =>
       IF Strip(query) # <<>> THEN OneScoreEach ELSE scored = <<>>

\* A ranking in which the service raised for one chunk, answered without a
\* number for another and with 1.5 for a third.
C22_Witness ==
  /\ scorePc = "ranked"
  /\ Len(chunks) = 4
  /\ {scored[i][2] : i \in 1..Len(scored)} = {0, 26, 100}
  /\ response = RAISES

\* C23 as stated: when no chunk scores above zero, retrieval returns the
\* first min(5, N) chunks of the store, in insertion order.
C23_Original ==
  (/\ scorePc = "ranked"
   /\ OneScoreEach
   /\ \A i \in 1..Len(scored) : scored[i][2] = 0)
    => /\ Len(selected_chunks) =
            (IF Len(chunks) < FALLBACK_TOP THEN Len(chunks) ELSE FALLBACK_TOP)
       /\ \A i \in 1..Len(selected_chunks) :
            selected_chunks[i] = WithScore(chunks[i], 0)

\* ---- the concurrency controller (SpecCtrl) ----

\* The tasks at work under the controller: after acquire() returned, or in
\* the block of "async with controller".
AtWork == {t \in Tasks : taskPc[t] \in {"holding", "inside"}}

\* C24 as stated: the tasks at work under the controller, and
\* active_requests, never exceed max_concurrent.
C24_Original ==
  /\ Cardinality(AtWork) <= max_concurrent
  /\ active_requests <= max_concurrent

\* The tasks suspended in acquire(), and those that hold a slot: acquire()
\* returned and release() was not called since.
Waiting == {t \in Tasks : taskPc[t] = "waiting"}
Holding == {t \in Tasks : taskPc[t] = "holding"}

\* The task is queued and the value of the semaphore does not reach to it:
\* the futures without a result before it take the value first.
NeedsRelease(t) ==
  /\ t \in Waiting
  /\ t \notin woken
  /\ \E k \in 1..Len(Pending(Sem)) :
       Pending(Sem)[k] = t /\ semValue < k

\* A task blocked in acquire() obtains a slot, or is cancelled.
BlockedObtains ==
  \A t \in Tasks :
    (taskPc[t] = "waiting") ~> (taskPc[t] \in {"holding", "cancelled"})

\* C38 as stated: a task blocked in acquire() eventually obtains a slot,
\* and a task that calls acquire() while fewer than max_concurrent tasks
\* hold a slot obtains one without waiting for a release.
C38_Original ==
  /\ BlockedObtains
  /\ [][\A t \in Tasks :
          (/\ taskPc[t] = "idle" /\ taskPc'[t] = "waiting"
           /\ Cardinality(Holding) < max_concurrent)
            => ~NeedsRelease(t)']_vars

\* C38, amended: a task blocked in acquire() eventually obtains a slot
\* unless it is cancelled; a task that calls acquire() while the tasks
\* holding a slot and the tasks queued in acquire() are together fewer than
\* max_concurrent obtains a slot without waiting for a release (it stays
\* so while it waits, and a task whose future has its result is there to
\* pass the value on), and at once when the semaphore has a value and no
\* task is queued.
C38_FairQueue ==
  /\ BlockedObtains
  /\ [](Pending(Sem) # <<>> /\ semValue > 0 => woken # {})
  /\ [][\A t \in Tasks :
          /\ (/\ taskPc[t] = "idle" /\ taskPc'[t] \in {"waiting", "holding"}
              /\ Cardinality(Holding) + Len(waiters) < max_concurrent)
               => ~NeedsRelease(t)'
          /\ (/\ taskPc[t] = "idle" /\ taskPc'[t] \in {"waiting", "holding"}
              /\ semValue > 0 /\ waiters = <<>>)
               => taskPc'[t] = "holding"
          /\ (/\ taskPc[t] = "waiting" /\ taskPc'[t] = "waiting"
              /\ ~NeedsRelease(t))
               => ~NeedsRelease(t)']_vars

\* Every slot was taken and two tasks queued; a release gave the slot to
\* the older of them, and the other is still behind it.
C38_Witness ==
  /\ semValue = 0
  /\ Cardinality(Holding) = max_concurrent - 1
  /\ \E t, u \in Waiting :
       /\ t \in woken /\ u \notin woken
       /\ waiters = <<t, u>>

\* C39 as stated: queued_requests is the number of tasks waiting in
\* acquire() and active_requests the number of tasks that acquired a slot
\* and did not release it, in every reachable state (after a cancellation
\* and after a release without an acquire too), and neither is negative.
C39_Original ==
  /\ queued_requests = Cardinality(Waiting)
  /\ active_requests = Cardinality(Holding)
  /\ queued_requests >= 0
  /\ active_requests >= 0

\* ---- the crawl loop (SpecCrawl) ----

\* C25: no URL is fetched twice in a crawl, whether its fetch recorded a
\* document, raised or returned a status other than 200; the visited set
\* is the set of the URLs fetched.
C25_FetchOnce ==
  /\ \A i, j \in 1..Len(fetchLog) :
       i # j => fetchLog[i].url # fetchLog[j].url
  /\ visited = {fetchLog[i].url : i \in 1..Len(fetchLog)}

\* A URL enqueued twice was fetched once, its fetch failed, and its second
\* entry heads the frontier.
C25_Witness ==
  /\ crawlPc = "loop"
  /\ LoopCondition
  /\ Len(fetchLog) = 2
  /\ fetchLog[2].failed
  /\ Head(queue) = <<fetchLog[2].url, fetchLog[2].depth>>

\* C27: an entry is popped only while the documents are fewer than
\* MAX_PAGES, and after an iteration that appended a link the documents and
\* the frontier without the last link appended are fewer than MAX_PAGES.
C27_BudgetGuard ==
  [][/\ (queue' # queue \/ fetchLog' # fetchLog)
          => Cardinality(DOMAIN pages) < MAX_PAGES
     /\ (fetchLog' # fetchLog /\ Len(queue') >= Len(queue))
          => Cardinality(DOMAIN pages') + Len(queue') - 1 < MAX_PAGES]_vars

\* The crawl returned with entries left in the frontier, the documents
\* having reached MAX_PAGES after two fetches.
C27_Witness ==
  /\ crawlPc = "done"
  /\ queue # <<>>
  /\ Len(fetchLog) >= 2
  /\ Cardinality(DOMAIN pages) >= MAX_PAGES

\* The depths of a list of entries or fetches never go down.
NonDecreasing(depths) ==
  \A i, j \in 1..Len(depths) : i <= j => depths[i] <= depths[j]

\* C29: the frontier is a FIFO: an iteration takes the oldest entry and
\* leaves the others in order, appending behind them entries one deeper
\* than the entry taken; the seed is fetched at depth 0 and fetches are in
\* non-decreasing depth order.
C29_BreadthFirst ==
  /\ [](/\ NonDecreasing([i \in 1..Len(fetchLog) |-> fetchLog[i].depth])
        /\ NonDecreasing([i \in 1..Len(queue) |-> queue[i][2]])
        /\ fetchLog # <<>> =>
             fetchLog[1].url = root_url /\ fetchLog[1].depth = 0)
  /\ [][queue' # queue =>
          /\ Len(queue') >= Len(queue) - 1
          /\ SubSeq(queue', 1, Len(queue) - 1) = Tail(queue)
          /\ \A k \in Len(queue)..Len(queue') :
               queue'[k][2] = Head(queue)[2] + 1
          /\ fetchLog' # fetchLog =>
               /\ fetchLog'[Len(fetchLog')].url = Head(queue)[1]
               /\ fetchLog'[Len(fetchLog')].depth = Head(queue)[2]]_vars

\* The two links of the seed page were fetched, in the order of the page.
C29_Witness ==
  /\ Len(fetchLog) = 3
  /\ fetchLog[2].depth = 1 /\ fetchLog[3].depth = 1
  /\ fetchLog[1].stored /\ fetchLog[2].stored /\ fetchLog[3].stored
  /\ lastLinks # {}

\* C34 as stated, its safety part: the frontier never holds more than
\* MAX_PAGES entries, and crawl returns with the frontier empty or with
\* MAX_PAGES documents.
C34_Original ==
  /\ Len(queue) <= MAX_PAGES
  /\ crawlPc = "done" =>
       queue = <<>> \/ Cardinality(DOMAIN pages) = MAX_PAGES

\* ---- crawl with its downloads (SpecDownloads) ----

\* C26 as stated: a URL that _fetch_bytes was called for was requested
\* once in the whole crawl, counting the requests of _fetch too.
C26_Original ==
  \A i, j \in 1..Len(gets) :
    (i # j /\ gets[i].by = "_fetch_bytes") => gets[j].url # gets[i].url

\* The request the step makes first, when it makes one.
FirstGet == gets'[Len(gets) + 1]

\* The step fetches a resource and takes the branch of lines 569-632 for
\* it: its document holds the response body as its only file, the other
\* documents recorded are chunk-documents of it, nothing is appended to the
\* frontier and nothing else is requested or marked as downloaded.
BinaryEffect ==
  LET id == PageDocId(FirstGet.url) IN
  /\ id \in DOMAIN pages'
  /\ Len(pages'[id].files) = 1
  /\ pages'[id].files[1].content = FirstGet.raw
  /\ pages'[id].files[1].source = FirstGet.url
  /\ \A k \in DOMAIN pages' \ DOMAIN pages :
       k = id \/ (Len(k) = 4 /\ k[2] = FirstGet.url)
  /\ \A k \in (DOMAIN pages) \ {id} : pages'[k] = pages[k]
  /\ queue' = Tail(queue)
  /\ gets' = Append(gets, FirstGet)
  /\ downloaded_binary_sources' = downloaded_binary_sources

\* C28 as stated: every fetched resource whose content type is not
\* text/html is processed that way.
C28_Original ==
  [][(/\ Len(gets') > Len(gets)
      /\ FirstGet.status = 200
      /\ FirstGet.content_type # "text/html") => BinaryEffect]_vars

\* C28: a fetched resource with a Content-Type that is not text/html is
\* recorded as one document whose files list holds the raw bytes alone
\* (with chunk-documents for a long text); no link of it is enqueued and
\* nothing is downloaded for it.
C28_NonHtmlType ==
  [][(/\ Len(gets') > Len(gets)
      /\ FirstGet.status = 200
      /\ FirstGet.content_type \notin {"", "text/html"}) => BinaryEffect]_vars

\* The resource fetched last was a PDF with a long text, found through a
\* link of a page, while another entry waits in the frontier.
C28_Witness ==
  /\ Len(gets) >= 2
  /\ gets[Len(gets)].by = "_fetch"
  /\ gets[Len(gets)].content_type = "application/pdf"
  /\ gets[Len(gets)].url = MANUAL_PDF
  /\ ChunkDocId(MANUAL_PDF, 1) \in DOMAIN pages
  /\ queue # <<>>

\* ---- the chunker (SpecChunk) ----

\* The lengths of t at the ends of its runs.
RunEnds(t) == {StrLen(SubSeq(t, 1, i)) : i \in 1..Len(t)}

\* t[a:a+n]
Slice(t, a, n) == Norm(Prefix(Suffix(t, StrLen(t) - a), n))

\* p in t: a p of one run lies inside a run of t; the first run of a longer
\* p ends where a run of t ends.
Contains(t, p) ==
  IF p = <<>> THEN TRUE
  ELSE IF Len(p) = 1
       THEN \E i \in 1..Len(t) : t[i].c = p[1].c /\ t[i].n >= p[1].n
       ELSE \E e \in RunEnds(t) :
              e >= p[1].n /\ Slice(t, e - p[1].n, StrLen(p)) = p

\* The first chunk of out, from the i-th on, whose text holds p; 0 if none.
RECURSIVE FirstHolding(_, _, _)
FirstHolding(out, p, i) ==
  IF i > Len(out) THEN 0
  ELSE IF Contains(out[i].text, p) THEN i
  ELSE FirstHolding(out, p, i + 1)

\* Every paragraph is held whole by a chunk, the chunks that hold them
\* being in the order of the paragraphs.
RECURSIVE InOrder(_, _, _)
InOrder(paras, out, i) ==
  IF paras = <<>> THEN TRUE
  ELSE LET k == FirstHolding(out, Head(paras), i)
       IN k # 0 /\ InOrder(Tail(paras), out, k)

\* The number of characters of t that are not whitespace.
RECURSIVE Ink(_)
Ink(t) ==
  IF t = <<>> THEN 0
  ELSE (IF IsWs(Head(t).c) THEN 0 ELSE Head(t).n) + Ink(Tail(t))

RECURSIVE InkOfChunks(_)
InkOfChunks(out) ==
  IF out = <<>> THEN 0 ELSE Ink(Head(out).text) + InkOfChunks(Tail(out))

\* C30: the chunker loses no text: the paragraphs hold every character of
\* the input that is not whitespace, and each paragraph, one longer than
\* max_chunk_chars included, lies whole inside a chunk, in input order.
C30_NoTextLost ==
  chPc = "done" =>
    /\ Ink(Join(Paragraphs(chText), <<>>)) = Ink(chText)
    /\ InOrder(Paragraphs(chText), chOut, 1)
    /\ InkOfChunks(chOut) >= Ink(chText)

\* The call returned several chunks for a text with a paragraph longer
\* than max_chunk_chars that is not its first.
C30_Witness ==
  /\ chPc = "done"
  /\ Len(chOut) >= 2
  /\ \E k \in 2..Len(Paragraphs(chText)) :
       /\ StrLen(Paragraphs(chText)[k]) > max_chunk_chars
       /\ Contains(chOut[Len(chOut)].text, Paragraphs(chText)[k])

\* The states of "for paragraph in paragraphs" before each paragraph, with
\* the paragraph and the state after it.
RECURSIVE LoopSteps(_, _, _)
LoopSteps(paragraphs, st, doc_id) ==
  IF paragraphs = <<>> THEN <<>>
  ELSE LET st1 == ChunkStep(st, Head(paragraphs), doc_id)
       IN <<[before |-> st, paragraph |-> Head(paragraphs), after |-> st1]>>
          \o LoopSteps(Tail(paragraphs), st1, doc_id)

StepsOf(text) ==
  LoopSteps(Paragraphs(text),
            [chunks |-> <<>>, cur |-> <<>>, len |-> 0, idx |-> 0], DocId)

\* The characters the buffer holds: its parts joined as a chunk joins them.
Held(st) == StrLen(Join(st.cur, NLs(1)))

\* The iteration closed the buffer as a chunk.
Closed(step) == Len(step.after.chunks) > Len(step.before.chunks)

\* The buffer after a close: the last overlap_chars characters of the chunk
\* closed, all of it if it is shorter, then the paragraph.
SeededWithOverlap(step) ==
  LET closed == step.after.chunks[Len(step.after.chunks)].text
      tail == IF StrLen(closed) > overlap_chars
              THEN Norm(Suffix(closed, overlap_chars)) ELSE closed
  IN /\ Len(step.after.cur) = 2
     /\ Strip(step.after.cur[1]) = Strip(tail)
     /\ step.after.cur[2] = step.paragraph

\* C31 as stated: a buffer is closed only if it holds at least 500
\* characters and the paragraph, joined to it, would take it over
\* max_chunk_chars; it is closed whenever it holds at least 500 characters
\* and its characters and the paragraph's are more than max_chunk_chars;
\* the buffer after a close is the overlap and the paragraph.
C31_Original ==
  chPc = "done" =>
    \A k \in 1..Len(StepsOf(chText)) :
      LET step == StepsOf(chText)[k]
          st == step.before
          n == StrLen(step.paragraph)
      IN /\ Closed(step) =>
              /\ Held(st) >= MIN_CHUNK_CHARS
              /\ Held(st) + 1 + n > max_chunk_chars
              /\ SeededWithOverlap(step)
         /\ (Held(st) >= MIN_CHUNK_CHARS /\ Held(st) + n > max_chunk_chars)
              => Closed(step)

\* ---- reads of the store by the handlers (SpecHandlers) ----

\* The chunks a read of retrieve_relevant_context returned.
Retrieved(seen) ==
  IF seen.op # "retrieve" THEN <<>>
  ELSE IF seen.result # <<>> /\ "images" \in DOMAIN seen.result[Len(seen.result)]
       THEN seen.result[1] ELSE seen.result

\* C33: retrieve_relevant_context and get_document_assets leave documents,
\* chunks and doc_to_chunks as they found them; a chunk of the store is
\* never changed once appended and never has a relevance_score, which every
\* chunk returned for a query has.
C33_ReadOnly ==
  /\ [](/\ \A i \in 1..Len(chunks) : "relevance_score" \notin DOMAIN chunks[i]
        /\ \A h \in Handlers :
             hSeen[h] # <<>> =>
               \A k \in 1..Len(Retrieved(hSeen[h])) :
                 "relevance_score" \in DOMAIN Retrieved(hSeen[h])[k])
  /\ [][/\ \A h \in Handlers :
             (hPc[h] # "stream" /\ hPc'[h] = "stream")
               => hSeen'[h].store = StoreWithKeys'
        /\ hPc' = hPc => StoreWithKeys' = StoreWithKeys
        /\ \A i \in 1..Len(chunks) : chunks'[i] = chunks[i]]_vars

\* A handler retrieved chunks of a store that holds them still, and
\* another resolved a marker to the assets of a document of that store.
C33_Witness ==
  /\ hSeen["h1"] # <<>> /\ hSeen["h2"] # <<>>
  /\ hSeen["h1"].op = "retrieve"
  /\ Len(Retrieved(hSeen["h1"])) >= 2
  /\ hSeen["h2"].op = "assets"
  /\ hSeen["h2"].result # EmptyAssets
  /\ hSeen["h2"].store = StoreWithKeys
  /\ hSeen["h1"].store = StoreWithKeys

\* ---- retrieval on the store (SpecIndex) ----

\* The copies of the chunks the pairs name, with their scores.
CopiesOf(pairs) ==
  [i \in 1..Len(pairs) |-> WithScore(chunks[pairs[i][1] + 1], pairs[i][2])]

RECURSIVE TokensOf(_)
TokensOf(sel) ==
  IF sel = <<>> THEN 0 ELSE ChunkTokens(Head(sel)) + TokensOf(Tail(sel))

\* sel is what the candidates give when only the token budget stops the
\* selection: all of them, or those before the first that does not fit.
BudgetPrefix(sel, cands) ==
  /\ Len(sel) <= Len(cands)
  /\ sel = SubSeq(CopiesOf(cands), 1, Len(sel))
  /\ Len(sel) < Len(cands) =>
       /\ sel # <<>>
       /\ TokensOf(sel) + ChunkTokens(CopiesOf(cands)[Len(sel) + 1]) > MaxTokens

\* C32 as stated, for a query that was scored: with a chunk above the
\* threshold every chunk returned is above it; with none the chunks
\* returned are the five best by score, all of them when there are fewer,
\* or the first of these that fit the token budget.
C32_Original ==
  (reqPc = "answered" /\ chunks # <<>> /\ Strip(query) # <<>>) =>
    IF \E i \in 1..Len(relevant_chunks) : IsRelevant(relevant_chunks[i])
    THEN \A i \in 1..Len(selected_chunks) :
           selected_chunks[i].relevance_score > RELEVANCE_THRESHOLD
    ELSE /\ Len(relevant_chunks) =
              (IF Len(chunks) < FALLBACK_TOP THEN Len(chunks) ELSE FALLBACK_TOP)
         /\ BudgetPrefix(selected_chunks, relevant_chunks)

\* The doc_ids that list position p, each as often as it lists it.
ListingsOf(p) ==
  UNION {{<<d, k>> : k \in {j \in 1..Len(doc_to_chunks[d]) :
                                doc_to_chunks[d][j] = p}} :
           d \in DOMAIN doc_to_chunks}

\* C35: every position doc_to_chunks lists for d is a position of chunks
\* whose chunk has doc_id d; every position of chunks is listed once, under
\* one doc_id; the doc_id of every chunk is a key of documents.
C35_Referential ==
  /\ \A d \in DOMAIN doc_to_chunks :
       \A k \in 1..Len(doc_to_chunks[d]) :
         /\ doc_to_chunks[d][k] \in 0..(Len(chunks) - 1)
         /\ chunks[doc_to_chunks[d][k] + 1].doc_id = d
  /\ \A p \in 0..(Len(chunks) - 1) : Cardinality(ListingsOf(p)) = 1
  /\ \A i \in 1..Len(chunks) : chunks[i].doc_id \in DOMAIN documents

\* Two documents are in the store, one of them added twice: its first
\* chunks are still in chunks and listed.
C35_Witness ==
  /\ Len(chunks) = 4
  /\ DOMAIN doc_to_chunks = {"docs://a", "docs://b"}
  /\ Len(doc_to_chunks["docs://b"]) = 2
  /\ doc_to_chunks["docs://a"] = <<1, 2>>

====
